---- MODULE Spec2Model ----
(***************************************************************************)
(* Model of the signing and packaging pipeline of @haexhub/sdk            *)
(* (src/src/crypto/signing.ts, class ExtensionSigner, first definition in *)
(* the file) together with the parts of Node.js it relies on (fs, Buffer, *)
(* JSON, WebCrypto, archiver), modelled by their documented behaviour.    *)
(*                                                                         *)
(* Text is modelled as sequences of character codes (ASCII values), file  *)
(* content as sequences of bytes, a path as a sequence of names.          *)
(***************************************************************************)
EXTENDS Integers, Sequences, FiniteSets, TLC

(***************************************************************************)
(* Characters and generic sequence helpers                                 *)
(***************************************************************************)

\* ASCII codes of the characters the model's texts are made of; repl is
\* U+FFFD, the replacement character a UTF-8 decoder substitutes.
Ch ==
  [ quote |-> 34, comma |-> 44, colon |-> 58, lbrace |-> 123, rbrace |-> 125,
    lbracket |-> 91, rbracket |-> 93, space |-> 32, nl |-> 10, slash |-> 47,
    zero |-> 48, nine |-> 57, a |-> 97, f |-> 102, repl |-> 65533 ]

Min(a, b) == IF a <= b THEN a ELSE b

RECURSIVE FlattenRange(_, _, _)
\* Concatenation of ss[lo], ..., ss[hi].
FlattenRange(ss, lo, hi) ==
  IF lo > hi THEN <<>>
  ELSE IF lo = hi THEN ss[lo]
  ELSE FlattenRange(ss, lo, (lo + hi) \div 2) \o FlattenRange(ss, (lo + hi) \div 2 + 1, hi)

\* Concatenation of a sequence of sequences (Buffer.concat).
Flatten(ss) == FlattenRange(ss, 1, Len(ss))

\* Strict order of two strings by code unit: the order of Array.prototype.sort()
\* without a comparator.
LexLess(s, t) ==
  \E i \in 1..(Min(Len(s), Len(t)) + 1) :
    /\ \A j \in 1..(i - 1) : s[j] = t[j]
    /\ \/ i > Len(s) /\ i <= Len(t)
       \/ i <= Len(s) /\ i <= Len(t) /\ s[i] < t[i]

RECURSIVE InsertSorted(_, _)
InsertSorted(sorted, x) ==
  IF sorted = <<>> THEN <<x>>
  ELSE IF LexLess(x, Head(sorted)) THEN <<x>> \o sorted
  ELSE <<Head(sorted)>> \o InsertSorted(Tail(sorted), x)

JsSortReversed(xs) == [i \in DOMAIN xs |-> xs[Len(xs) + 1 - i]]

RECURSIVE JsSort(_)
\* Array.prototype.sort() on an array of strings (stable, code-unit order).
JsSort(xs) ==
  IF xs = <<>> THEN <<>>
  ELSE InsertSorted(JsSort(SubSeq(xs, 1, Len(xs) - 1)), xs[Len(xs)])

Range(s) == { s[i] : i \in DOMAIN s }

\* All orders in which the elements of a finite set can be listed.
Perms(S) ==
  { p \in [1..Cardinality(S) -> S] : \A x \in S : \E i \in DOMAIN p : p[i] = x }

(***************************************************************************)
(* JavaScript values: JSON documents                                       *)
(***************************************************************************)

\* A value is a record [t, v]: a string, a number, an array, or an object.
\* An object's v lists its own properties <<key, value>> in the order
\* Object.keys and JSON.stringify enumerate them.
JStr(s) == [t |-> "s", v |-> s]
JNum(n) == [t |-> "n", v |-> n]
JArr(items) == [t |-> "a", v |-> items]
JObj(props) == [t |-> "o", v |-> props]
EmptyObject == JObj(<<>>)

IsDigit(c) == c >= Ch.zero /\ c <= Ch.nine

RECURSIVE NumVal(_)
NumVal(k) ==
  IF k = <<>> THEN 0 ELSE 10 * NumVal(SubSeq(k, 1, Len(k) - 1)) + (k[Len(k)] - Ch.zero)

\* An "array index" property key: the canonical decimal form of an integer in
\* 0 .. 2^32 - 2. Such keys are enumerated first, in ascending numeric order.
\* (Ten-digit keys are compared as digit strings, their values not fitting a
\* 32-bit integer; the keys of the model's documents are far shorter.)
IsArrayIndex(k) ==
  /\ Len(k) >= 1 /\ Len(k) <= 10
  /\ \A i \in DOMAIN k : IsDigit(k[i])
  /\ (Len(k) > 1 => k[1] # Ch.zero)
  /\ (Len(k) = 10 => ~LexLess(<<52, 50, 57, 52, 57, 54, 55, 50, 57, 52>>, k))

\* "__proto__"
ProtoKey == <<95, 95, 112, 114, 111, 116, 111, 95, 95>>

OwnKeys(o) == [i \in DOMAIN o.v |-> o.v[i][1]]
HasOwn(o, k) == \E i \in DOMAIN o.v : o.v[i][1] = k
GetProp(o, k) == o.v[CHOOSE i \in DOMAIN o.v : o.v[i][1] = k][2]

\* Position at which a new own property with key k is enumerated.
InsertAt(props, k) ==
  IF IsArrayIndex(k)
  THEN Cardinality({ i \in DOMAIN props :
                       IsArrayIndex(props[i][1]) /\ NumVal(props[i][1]) < NumVal(k) }) + 1
  ELSE Len(props) + 1

\* CreateDataProperty: an existing key keeps its place and takes the value, a
\* new key is added (what JSON.parse and an object literal do).
DefineProp(o, k, val) ==
  IF HasOwn(o, k)
  THEN JObj([i \in DOMAIN o.v |-> IF o.v[i][1] = k THEN <<k, val>> ELSE o.v[i]])
  ELSE LET at == InsertAt(o.v, k)
       IN JObj(SubSeq(o.v, 1, at - 1) \o <<<<k, val>>>> \o SubSeq(o.v, at, Len(o.v)))

\* obj[k] = val on an ordinary object: as DefineProp, except that the key
\* "__proto__", when not an own property, reaches the accessor inherited from
\* Object.prototype, which changes the prototype and adds no own property.
AssignProp(o, k, val) ==
  IF k = ProtoKey /\ ~HasOwn(o, k) THEN o ELSE DefineProp(o, k, val)

(***************************************************************************)
(* ManifestCanonicalizer: sortObjectKeysRecursively                        *)
(***************************************************************************)

KeepKeyOrder(obj) == obj

RECURSIVE sortObjectKeysRecursively(_)
RECURSIVE ReduceSortedKeys(_, _, _)

\* .reduce((result, key) => { result[key] = sort(obj[key]); return result }, {})
\* over the keys listed in `keys`.
ReduceSortedKeys(obj, keys, result) ==
  IF keys = <<>> THEN result
  ELSE ReduceSortedKeys(
         obj, Tail(keys),
         AssignProp(result, Head(keys), sortObjectKeysRecursively(GetProp(obj, Head(keys)))))

sortObjectKeysRecursively(obj) ==
  IF obj.t \notin {"o", "a"} THEN obj
  ELSE IF obj.t = "a"
  THEN JArr([i \in DOMAIN obj.v |-> sortObjectKeysRecursively(obj.v[i])])
  ELSE ReduceSortedKeys(obj, JsSort(OwnKeys(obj)), EmptyObject)

(***************************************************************************)
(* JSON.stringify(value, null, 2) and JSON.parse                           *)
(***************************************************************************)

RECURSIVE Digits(_)
Digits(n) ==
  IF n < 10 THEN <<Ch.zero + n>> ELSE Digits(n \div 10) \o <<Ch.zero + (n % 10)>>

Indent(depth) == [i \in 1..(2 * depth) |-> Ch.space]

RECURSIVE JoinWith(_, _)
JoinWith(parts, sep) ==
  IF parts = <<>> THEN <<>>
  ELSE IF Len(parts) = 1 THEN parts[1]
  ELSE parts[1] \o sep \o JoinWith(Tail(parts), sep)

Quoted(s) == <<Ch.quote>> \o s \o <<Ch.quote>>

RECURSIVE StringifyAt(_, _)
StringifyAt(val, depth) ==
  CASE val.t = "s" -> Quoted(val.v)
    [] val.t = "n" -> Digits(val.v)
    [] val.t = "a" ->
         IF val.v = <<>> THEN <<Ch.lbracket, Ch.rbracket>>
         ELSE <<Ch.lbracket, Ch.nl>> \o Indent(depth + 1)
              \o JoinWith([i \in DOMAIN val.v |-> StringifyAt(val.v[i], depth + 1)],
                          <<Ch.comma, Ch.nl>> \o Indent(depth + 1))
              \o <<Ch.nl>> \o Indent(depth) \o <<Ch.rbracket>>
    [] val.t = "o" ->
         IF val.v = <<>> THEN <<Ch.lbrace, Ch.rbrace>>
         ELSE <<Ch.lbrace, Ch.nl>> \o Indent(depth + 1)
              \o JoinWith([i \in DOMAIN val.v |->
                             Quoted(val.v[i][1]) \o <<Ch.colon, Ch.space>>
                             \o StringifyAt(val.v[i][2], depth + 1)],
                          <<Ch.comma, Ch.nl>> \o Indent(depth + 1))
              \o <<Ch.nl>> \o Indent(depth) \o <<Ch.rbrace>>

\* JSON.stringify(value, null, 2)
JsonStringify(val) == StringifyAt(val, 0)

IsWs(c) == c = Ch.space \/ c = Ch.nl

RECURSIVE SkipWs(_)
SkipWs(s) == IF s # <<>> /\ IsWs(Head(s)) THEN SkipWs(Tail(s)) ELSE s

\* Index of the first occurrence of c in s, 0 when there is none.
IndexOf(s, c) ==
  IF \E i \in DOMAIN s : s[i] = c
  THEN CHOOSE i \in DOMAIN s : s[i] = c /\ \A j \in 1..(i - 1) : s[j] # c
  ELSE 0

RECURSIVE TakeDigits(_)
TakeDigits(s) ==
  IF s # <<>> /\ IsDigit(Head(s)) THEN <<Head(s)>> \o TakeDigits(Tail(s)) ELSE <<>>

\* JSON.parse reads its text with a stack of the containers it is inside:
\* rest is the text not yet read, mode what is expected next, val the value
\* just completed, stack the open containers with the key awaiting its value.
ParseStart(text) ==
  [done |-> FALSE, ok |-> FALSE, rest |-> text, stack |-> <<>>, mode |-> "value",
   val |-> JNum(0)]

ParseFail(st) == [st EXCEPT !.done = TRUE, !.ok = FALSE]

ParseCompleted(st, val, rest) == [st EXCEPT !.val = val, !.rest = rest, !.mode = "after"]

ParseOpen(st, container, mode, rest) ==
  [st EXCEPT !.stack = Append(@, [c |-> container, key |-> <<>>]),
             !.rest = rest, !.mode = mode]

ParseClose(st, container, rest) ==
  [st EXCEPT !.stack = SubSeq(@, 1, Len(@) - 1), !.val = container, !.rest = rest,
             !.mode = "after"]

\* A value starts at s: a string, a number, an array or an object.
ParseValue(st, s) ==
  IF s = <<>> THEN ParseFail(st)
  ELSE IF Head(s) = Ch.quote
  THEN LET close == IndexOf(Tail(s), Ch.quote) IN
       IF close = 0 THEN ParseFail(st)
       ELSE ParseCompleted(st, JStr(SubSeq(Tail(s), 1, close - 1)),
                           SubSeq(Tail(s), close + 1, Len(s) - 1))
  ELSE IF IsDigit(Head(s))
  THEN LET ds == TakeDigits(s) IN
       IF Len(ds) > 1 /\ ds[1] = Ch.zero THEN ParseFail(st)
       ELSE ParseCompleted(st, JNum(NumVal(ds)), SubSeq(s, Len(ds) + 1, Len(s)))
  ELSE IF Head(s) = Ch.lbracket THEN ParseOpen(st, JArr(<<>>), "firstElement", Tail(s))
  ELSE IF Head(s) = Ch.lbrace THEN ParseOpen(st, EmptyObject, "firstKey", Tail(s))
  ELSE ParseFail(st)

\* A member starts at s: "key" and a colon.
ParseKey(st, s) ==
  IF s = <<>> \/ Head(s) # Ch.quote THEN ParseFail(st)
  ELSE LET close == IndexOf(Tail(s), Ch.quote)
           s1 == SkipWs(SubSeq(Tail(s), close + 1, Len(s) - 1))
       IN IF close = 0 THEN ParseFail(st)
          ELSE IF s1 = <<>> \/ Head(s1) # Ch.colon THEN ParseFail(st)
          ELSE [st EXCEPT !.stack[Len(st.stack)].key = SubSeq(Tail(s), 1, close - 1),
                          !.rest = Tail(s1), !.mode = "value"]

\* A value is complete: it is the whole text, or it goes into the innermost
\* open container, which a comma continues and a bracket closes.
ParseAfter(st, s) ==
  IF st.stack = <<>> THEN [st EXCEPT !.done = TRUE, !.ok = (s = <<>>)]
  ELSE LET top == st.stack[Len(st.stack)]
           isObject == top.c.t = "o"
           container == IF isObject THEN DefineProp(top.c, top.key, st.val)
                        ELSE JArr(Append(top.c.v, st.val))
       IN IF s = <<>> THEN ParseFail(st)
          ELSE IF Head(s) = Ch.comma
          THEN [st EXCEPT !.stack[Len(st.stack)].c = container, !.rest = Tail(s),
                          !.mode = IF isObject THEN "key" ELSE "value"]
          ELSE IF Head(s) = (IF isObject THEN Ch.rbrace ELSE Ch.rbracket)
          THEN ParseClose(st, container, Tail(s))
          ELSE ParseFail(st)

ParseStep(st, s) ==
  CASE st.mode = "value" -> ParseValue(st, s)
    [] st.mode = "firstElement" ->
         IF s # <<>> /\ Head(s) = Ch.rbracket
         THEN ParseClose(st, st.stack[Len(st.stack)].c, Tail(s))
         ELSE [st EXCEPT !.mode = "value"]
    [] st.mode = "firstKey" ->
         IF s # <<>> /\ Head(s) = Ch.rbrace
         THEN ParseClose(st, st.stack[Len(st.stack)].c, Tail(s))
         ELSE [st EXCEPT !.mode = "key"]
    [] st.mode = "key" -> ParseKey(st, s)
    [] st.mode = "after" -> ParseAfter(st, s)

RECURSIVE ParseLoop(_)
ParseLoop(st) == IF st.done THEN st ELSE ParseLoop(ParseStep(st, SkipWs(st.rest)))

\* JSON.parse(text): ok is FALSE where it throws a SyntaxError.
JsonParse(text) ==
  LET r == ParseLoop(ParseStart(text)) IN
  IF r.ok THEN [ok |-> TRUE, val |-> r.val] ELSE [ok |-> FALSE, val |-> JNum(0)]

(***************************************************************************)
(* Buffer: hex and UTF-8 conversions                                       *)
(***************************************************************************)

HexDigit(n) == IF n < 10 THEN Ch.zero + n ELSE Ch.a + (n - 10)

\* buffer.toString("hex"): two lowercase digits per byte.
ToHex(bytes) ==
  Flatten([i \in DOMAIN bytes |-> <<HexDigit(bytes[i] \div 16), HexDigit(bytes[i] % 16)>>])

\* Value of a hex digit, -1 for any other character.
HexVal(c) ==
  IF IsDigit(c) THEN c - Ch.zero
  ELSE IF c >= Ch.a /\ c <= Ch.f THEN c - Ch.a + 10
  ELSE IF c >= 65 /\ c <= 70 THEN c - 65 + 10
  ELSE -1

RECURSIVE FromHex(_)
\* Buffer.from(str, "hex"): decodes pairs of digits and stops, without an
\* error, at the first pair that is not two hex digits or at a lone last digit.
FromHex(str) ==
  IF Len(str) < 2 \/ HexVal(str[1]) < 0 \/ HexVal(str[2]) < 0 THEN <<>>
  ELSE <<16 * HexVal(str[1]) + HexVal(str[2])>> \o FromHex(SubSeq(str, 3, Len(str)))

\* The three bytes at i are EF BF BD, the UTF-8 form of U+FFFD.
IsReplacementAt(bytes, i) ==
  i >= 1 /\ i + 2 <= Len(bytes)
  /\ bytes[i] = 239 /\ bytes[i + 1] = 191 /\ bytes[i + 2] = 189

\* buffer.toString("utf-8"), fs.readFile(path, "utf-8"): an ASCII byte is its
\* character, EF BF BD is U+FFFD, and any other byte at or above 128, not
\* being part of a well-formed sequence in the files modelled, is replaced by
\* U+FFFD.
Utf8Decode(bytes) ==
  Flatten([i \in DOMAIN bytes |->
    IF IsReplacementAt(bytes, i - 1) \/ IsReplacementAt(bytes, i - 2) THEN <<>>
    ELSE IF bytes[i] < 128 THEN <<bytes[i]>>
    ELSE <<Ch.repl>>])

\* Buffer.from(str, "utf-8"), as fs.writeFile(path, str) encodes: U+FFFD is
\* written as EF BF BD.
Utf8Encode(str) ==
  Flatten([i \in DOMAIN str |-> IF str[i] < 128 THEN <<str[i]>> ELSE <<239, 191, 189>>])

\* String.prototype.includes / Buffer.includes
Includes(s, sub) ==
  \E i \in 0..(Len(s) - Len(sub)) : SubSeq(s, i + 1, i + Len(sub)) = sub

(***************************************************************************)
(* WebCrypto (Ed25519, SHA-256), modelled by its contract                  *)
(***************************************************************************)

\* Bytes of a private seed (32 in Ed25519).
SeedLen == 1
Seeds == [1..SeedLen -> {1, 2, 250}]

\* Start of the PKCS#8 encoding of an Ed25519 private key, which the seed
\* follows (16 bytes in the real encoding, its first two here).
Pkcs8Header == <<48, 46>>

\* The public key of a seed: a fixed one-to-one function that is not the
\* identity, standing for scalar multiplication of the base point.
Ed25519Public(seed) == [i \in DOMAIN seed |-> (3 * seed[i] + 7) % 256]

\* crypto.subtle.exportKey("pkcs8", privateKey)
ExportPkcs8(seed) == Pkcs8Header \o seed

ImportPkcs8Unchecked(buffer) ==
  [ok |-> TRUE, seed |-> SubSeq(buffer, Len(Pkcs8Header) + 1, Len(buffer))]

\* crypto.subtle.importKey("pkcs8", buffer, Ed25519, true, ["sign"]): the seed
\* of the key, or a DataError.
ImportPkcs8(buffer) ==
  IF Len(buffer) = Len(Pkcs8Header) + SeedLen
     /\ SubSeq(buffer, 1, Len(Pkcs8Header)) = Pkcs8Header
  THEN [ok |-> TRUE, seed |-> SubSeq(buffer, Len(Pkcs8Header) + 1, Len(buffer))]
  ELSE [ok |-> FALSE, seed |-> <<>>]

\* crypto.subtle.exportKey("jwk", privateKey): d is the seed, x the public key.
ExportJwk(seed) == [kty |-> "OKP", crv |-> "Ed25519", d |-> seed, x |-> Ed25519Public(seed)]

\* crypto.subtle.digest("SHA-256", data): collision-free, and not the data.
Sha256(data) == <<Len(data) % 256>> \o data

\* crypto.subtle.sign("Ed25519", privateKey, data): a deterministic function
\* of key and data that only the key's holder is taken to be able to compute.
Ed25519Sign(seed, data) == Ed25519Public(seed) \o data

\* crypto.subtle.verify("Ed25519", publicKey, signature, data)
Ed25519Verify(publicKey, signature, data) == signature = publicKey \o data

\* generateKeypair with the random seed the engine drew.
generateKeypair(seed) ==
  [publicKey |-> ToHex(Ed25519Public(seed)), privateKey |-> ToHex(ExportPkcs8(seed))]

DerivePublicKeyFromD(privateKeyBuffer) == ExportJwk(ImportPkcs8(privateKeyBuffer).seed).d

\* derivePublicKey(privateKeyBuffer) for a buffer importKey accepts: the raw
\* export of the key imported from the JWK with d removed.
derivePublicKey(privateKeyBuffer) == ExportJwk(ImportPkcs8(privateKeyBuffer).seed).x

(***************************************************************************)
(* File system: a function from paths to file contents                     *)
(***************************************************************************)

\* A path is a sequence of names; directories exist where files lie below them.
PathStr(p) == JoinWith(p, <<Ch.slash>>)

IsPrefix(d, p) == Len(d) <= Len(p) /\ SubSeq(p, 1, Len(d)) = d
FilesUnder(fsys, dir) == { p \in DOMAIN fsys : Len(p) > Len(dir) /\ IsPrefix(dir, p) }
IsDirectory(fsys, p) == FilesUnder(fsys, p) # {}

\* Names fs.readdir(dir) returns, in no particular order.
Entries(fsys, dir) == { p[Len(dir) + 1] : p \in FilesUnder(fsys, dir) }

\* Directories at or below dir.
DirsUnder(fsys, dir) ==
  {dir} \cup UNION { { SubSeq(p, 1, n) : n \in (Len(dir) + 1)..(Len(p) - 1) }
                     : p \in FilesUnder(fsys, dir) }

\* The file with the given path string.
FileAt(fsys, str) == CHOOSE p \in DOMAIN fsys : PathStr(p) = str

\* fs with the file at p written / removed.
WriteFile(fsys, p, data) == [q \in DOMAIN fsys \cup {p} |-> IF q = p THEN data ELSE fsys[q]]
RemoveAll(fsys, gone) == [q \in DOMAIN fsys \ gone |-> fsys[q]]

(***************************************************************************)
(* ContentHasher: getAllFiles and hashDirectory                            *)
(***************************************************************************)

RECURSIVE getAllFiles(_, _, _)
\* getAllFiles(dirPath), where listing[d] is the order in which readdir
\* returned the entries of directory d. Promise.all keeps the results in the
\* order of the entries, whichever read completes first.
getAllFiles(fsys, listing, dirPath) ==
  Flatten([i \in DOMAIN listing[dirPath] |->
             LET fullPath == Append(dirPath, listing[dirPath][i])
             IN IF IsDirectory(fsys, fullPath)
                THEN getAllFiles(fsys, listing, fullPath)
                ELSE <<PathStr(fullPath)>>])

SortFilesUnsorted(files) == files

\* files.sort()
SortFiles(files) == JsSort(files)

CombineFirstOnly(contents) == IF contents = <<>> THEN <<>> ELSE contents[1]

\* Buffer.concat(contents)
Combine(contents) == Flatten(contents)

\* The loop reading each file of sortedFiles in turn.
ReadContents(fsys, sortedFiles) == [i \in DOMAIN sortedFiles |-> fsys[FileAt(fsys, sortedFiles[i])]]

\* hashDirectory(dirPath) when every read succeeds.
hashDirectory(fsys, listing, dirPath) ==
  Sha256(Combine(ReadContents(fsys, SortFiles(getAllFiles(fsys, listing, dirPath)))))

\* A listing of every directory at or below dir: entries in ascending or in
\* descending order of their names.
ListingOf(fsys, dir, descending) ==
  [d \in DirsUnder(fsys, dir) |->
     LET asc == JsSort(CHOOSE s \in Perms(Entries(fsys, d)) : TRUE)
     IN IF descending THEN [i \in DOMAIN asc |-> asc[Len(asc) + 1 - i]] ELSE asc]

(***************************************************************************)
(* State                                                                   *)
(***************************************************************************)

VARIABLES
  \* canonicalisation of a document, applied once and then to its own result
  cPc, cDoc, cOnce, cTwice,
  \* hashDirectory run on a tree and then on an edited copy of it:
  \* hTrees the two trees, hEdit the kind of edit, hRun the tree being hashed,
  \* hPending the directories whose readdir has not returned, hListing the
  \* entries each readdir returned, hFiles the value getAllFiles resolved to,
  \* hSorted the sorted list, hContents the buffers read so far, hDigest the
  \* digests returned
  hPc, hTrees, hEdit, hRun, hPending, hListing, hFiles, hSorted, hContents, hDigest,
  \* key generation and signExtension: sKeypair the generated pair, sBundle
  \* the files of the bundle directory, sDerived the bytes derivePublicKey
  \* returned, sResult what signExtension returned
  sPc, sKeypair, sBundle, sDerived, sResult,
  \* packageExtension: fs the files on disk, fsDirs the directories made with
  \* mkdir, pArgs the arguments, pKeyPath where the private key file lies,
  \* pFs0 the files at the start of the run, run the locals of the call and
  \* its position, out the output stream, the archiver and the two handlers'
  \* restoring writes, pHashed the staged tree as hashDirectory read it,
  \* pArchive the entries the archiver read, pResult the returned promise
  fs, fsDirs, pArgs, pKeyPath, pFs0, run, out, pHashed, pArchive, pResult,
  \* two packageExtension calls in flight on one project: dateNow the value of
  \* Date.now(), disk the files, diskDirs the directories made with mkdir,
  \* disk0 the files before either call, calls the locals and the position
  \* of each call
  dateNow, disk, diskDirs, disk0, calls,
  \* HaexHubClient's setup hook: the client's fields readyPromise, setupHook,
  \* setupPromise and _setupCompleted; kCallers the position of each caller
  \* of setupComplete() and how many calls it has made; kHookRuns how often
  \* the hook was invoked; kRegistered the hooks onSetup accepted; kThrown
  \* how often onSetup threw
  readyPromise, setupHook, setupPromise, setupCompleted, kCallers, kHookRuns,
  kRegistered, kThrown,
  \* HaexHubClient.request over postMessage: the client's fields
  \* requestCounter and pendingRequests (the ids that have an entry) and
  \* whether its message handler is registered; rTimers the ids whose timeout
  \* is armed, rPromises the promise returned for each id, rAwaited the
  \* requests the parent window has received and not answered, rInbox the
  \* responses posted to the client's window and not yet dispatched
  requestCounter, pendingRequests, messageHandler, rTimers, rPromises, rAwaited, rInbox,
  \* runMigrationsAsync: mTable the names in the migrations table in the order
  \* of their insertion, mLog the statements executed so far, mCalls the
  \* arguments, locals and position of each call
  mTable, mLog, mCalls

canonVars == <<cPc, cDoc, cOnce, cTwice>>
hashVars ==
  <<hPc, hTrees, hEdit, hRun, hPending, hListing, hFiles, hSorted, hContents, hDigest>>
signVars == <<sPc, sKeypair, sBundle, sDerived, sResult>>
pkgVars == <<fs, fsDirs, pArgs, pKeyPath, pFs0, run, out, pHashed, pArchive, pResult>>
twoVars == <<dateNow, disk, diskDirs, disk0, calls>>
clientVars ==
  <<readyPromise, setupHook, setupPromise, setupCompleted, kCallers, kHookRuns,
    kRegistered, kThrown>>
requestVars ==
  <<requestCounter, pendingRequests, messageHandler, rTimers, rPromises, rAwaited, rInbox>>
migrationVars == <<mTable, mLog, mCalls>>
vars ==
  <<canonVars, hashVars, signVars, pkgVars, twoVars, clientVars, requestVars, migrationVars>>

\* What the actions of one part leave unchanged: the variables of the others.
canonOthers ==
  <<hashVars, signVars, pkgVars, twoVars, clientVars, requestVars, migrationVars>>
hashOthers ==
  <<canonVars, signVars, pkgVars, twoVars, clientVars, requestVars, migrationVars>>
signOthers ==
  <<canonVars, hashVars, pkgVars, twoVars, clientVars, requestVars, migrationVars>>
pkgOthers ==
  <<canonVars, hashVars, signVars, twoVars, clientVars, requestVars, migrationVars>>
twoOthers ==
  <<canonVars, hashVars, signVars, pkgVars, clientVars, requestVars, migrationVars>>
clientOthers ==
  <<canonVars, hashVars, signVars, pkgVars, twoVars, requestVars, migrationVars>>
requestOthers ==
  <<canonVars, hashVars, signVars, pkgVars, twoVars, clientVars, migrationVars>>
migrationOthers ==
  <<canonVars, hashVars, signVars, pkgVars, twoVars, clientVars, requestVars>>

NoFiles == [p \in {} |-> <<>>]

CanonIdle == cPc = "off" /\ cDoc = JNum(0) /\ cOnce = JNum(0) /\ cTwice = JNum(0)

HashIdle ==
  /\ hPc = "off" /\ hTrees = <<NoFiles, NoFiles>> /\ hEdit = "none" /\ hRun = 0
  /\ hPending = {} /\ hListing = NoFiles /\ hFiles = <<>> /\ hSorted = <<>>
  /\ hContents = <<>> /\ hDigest = <<<<>>, <<>>>>

NoKeypair == [publicKey |-> <<>>, privateKey |-> <<>>]
NoSignResult == [ok |-> FALSE, signature |-> <<>>, publicKey |-> <<>>, hash |-> <<>>]

SignIdle ==
  /\ sPc = "off" /\ sKeypair = NoKeypair /\ sBundle = NoFiles /\ sDerived = <<>>
  /\ sResult = NoSignResult

\* The locals of packageExtension before any is assigned.
NoRun ==
  [pc |-> "off", originalManifestContent |-> <<>>, manifest |-> EmptyObject,
   privateKey |-> <<>>, publicKeyHex |-> <<>>, canonicalManifestForHashing |-> EmptyObject,
   extensionDir |-> <<>>, tempDir |-> <<>>, error |-> "", contentHash |-> <<>>,
   signatureHex |-> <<>>, finalOutputPath |-> <<>>, configQueued |-> FALSE]
NoOut == [stream |-> "none", archive |-> "none", closeWrite |-> "none", errorWrite |-> "none"]
PendingPromise == [state |-> "pending", value |-> <<>>, error |-> ""]

PkgIdle ==
  /\ fs = NoFiles /\ fsDirs = {} /\ pArgs = [extensionPath |-> <<>>, privateKeyHex |-> <<>>]
  /\ pKeyPath = <<>> /\ pFs0 = NoFiles /\ run = NoRun /\ out = NoOut
  /\ pHashed = NoFiles /\ pArchive = {} /\ pResult = PendingPromise

TwoIdle ==
  dateNow = 0 /\ disk = NoFiles /\ diskDirs = {} /\ disk0 = NoFiles /\ calls = <<>>

ClientIdle ==
  /\ readyPromise = "off" /\ setupHook = 0 /\ setupPromise = "off"
  /\ setupCompleted = FALSE /\ kCallers = <<>> /\ kHookRuns = 0
  /\ kRegistered = <<>> /\ kThrown = 0

RequestIdle ==
  /\ requestCounter = 0 /\ pendingRequests = {} /\ messageHandler = FALSE
  /\ rTimers = {} /\ rPromises = <<>> /\ rAwaited = {} /\ rInbox = {}

MigrationIdle == mTable = <<>> /\ mLog = <<>> /\ mCalls = <<>>

(***************************************************************************)
(* Canonicalisation of nested documents                                    *)
(***************************************************************************)

\* Most keys an object of a generated document is built with.
MaxKeys == 2

\* "9", "10", "a", "b", "__proto__"
CanonKeys == { <<57>>, <<49, 48>>, <<97>>, <<98>>, ProtoKey }

\* Orders in which at most MaxKeys distinct keys are set on a new object.
InsertionOrders ==
  UNION { { ks \in [1..n -> CanonKeys] : \A i, j \in 1..n : i # j => ks[i] # ks[j] }
          : n \in 0..MaxKeys }

RECURSIVE BuildObject(_, _)
\* The object literal { ks[1]: vals[1], ks[2]: vals[2], ... }.
BuildObject(ks, vals) ==
  IF ks = <<>> THEN EmptyObject
  ELSE DefineProp(BuildObject(SubSeq(ks, 1, Len(ks) - 1), vals), ks[Len(ks)], vals[Len(ks)])

FlatObjects ==
  { BuildObject(ks, [i \in DOMAIN ks |-> IF i = 1 THEN JNum(1) ELSE JStr(<<120>>)])
    : ks \in InsertionOrders }

\* Objects nested in an object: the first key set holds a flat object.
NestedObjects ==
  { BuildObject(ks, [i \in DOMAIN ks |-> IF i = 1 THEN inner ELSE JNum(2)])
    : ks \in InsertionOrders \ {<<>>}, inner \in FlatObjects }

CanonDocs ==
  {JNum(1), JStr(<<120>>)}
  \cup FlatObjects
  \cup { JArr(<<x, y>>) : x \in FlatObjects, y \in FlatObjects }
  \cup NestedObjects
  \cup { JArr(<<x>>) : x \in NestedObjects }

CanonInit ==
  /\ cPc = "doc"
  /\ cDoc \in CanonDocs
  /\ cOnce = JNum(0)
  /\ cTwice = JNum(0)
  /\ HashIdle /\ SignIdle /\ PkgIdle /\ TwoIdle /\ ClientIdle
  /\ RequestIdle /\ MigrationIdle

\* canonicalize(m)
Canonicalize ==
  /\ cPc = "doc"
  /\ cOnce' = sortObjectKeysRecursively(cDoc)
  /\ cPc' = "once"
  /\ UNCHANGED <<cDoc, cTwice, canonOthers>>

\* canonicalize(canonicalize(m))
CanonicalizeAgain ==
  /\ cPc = "once"
  /\ cTwice' = sortObjectKeysRecursively(cOnce)
  /\ cPc' = "twice"
  /\ UNCHANGED <<cDoc, cOnce, canonOthers>>

CanonNext == Canonicalize \/ CanonicalizeAgain

SpecCanon == CanonInit /\ [][CanonNext]_vars

\* C9: canonicalising a canonical document changes nothing: the value, the
\* order in which every object lists its keys, and the serialization are those
\* of the first canonicalisation.
C9_CanonIdempotent ==
  cPc = "twice" =>
    /\ cTwice = cOnce
    /\ JsonStringify(cTwice) = JsonStringify(cOnce)

\* An array of two objects built in different key orders, one of them changed
\* by canonicalisation, has been canonicalised twice.
C9_Witness ==
  /\ cPc = "twice"
  /\ cDoc.t = "a" /\ Len(cDoc.v) = 2
  /\ cDoc.v[1].t = "o" /\ cDoc.v[2].t = "o"
  /\ OwnKeys(cDoc.v[1]) # OwnKeys(cDoc.v[2])
  /\ Range(OwnKeys(cDoc.v[1])) = Range(OwnKeys(cDoc.v[2]))
  /\ cOnce # cDoc

(***************************************************************************)
(* hashDirectory, step by step, on a tree and on an edited copy            *)
(***************************************************************************)

\* Longest file content of a generated tree, in bytes.
MaxLen == 1

HashBytes == {0, 1}
HashContents == UNION { [1..n -> HashBytes] : n \in 0..MaxLen }

\* The directory hashed, "t", and the paths files may have below it:
\* "t/b", "t/a/c", "t/a.b".
HashRoot == << <<116>> >>
HashPaths == { HashRoot \o << <<98>> >>, HashRoot \o << <<97>>, <<99>> >>,
               HashRoot \o << <<97, 46, 98>> >> }

HashTrees == UNION { [S -> HashContents] : S \in SUBSET HashPaths }

\* The copies of tree t that differ from it by one edit of the given kind.
Edited(t, kind) ==
  CASE kind = "same" -> {t}
    [] kind = "byte" ->
         UNION { { WriteFile(t, p, [t[p] EXCEPT ![i] = b]) : i \in DOMAIN t[p], b \in HashBytes }
                 : p \in DOMAIN t } \ {t}
    [] kind = "add" ->
         { WriteFile(t, p, c) : p \in HashPaths \ DOMAIN t, c \in HashContents }
    [] kind = "remove" -> { RemoveAll(t, {p}) : p \in DOMAIN t }
    [] kind = "rename" ->
         UNION { { WriteFile(RemoveAll(t, {p}), q, t[p]) : q \in HashPaths \ DOMAIN t }
                 : p \in DOMAIN t }

EditKinds == {"same", "byte", "add", "remove", "rename"}

HashInit ==
  /\ hPc = "idle"
  /\ hEdit = "none"
  /\ \E t \in HashTrees : hTrees = <<t, t>>
  /\ hRun = 1
  /\ hPending = {} /\ hListing = NoFiles /\ hFiles = <<>> /\ hSorted = <<>>
  /\ hContents = <<>> /\ hDigest = <<<<>>, <<>>>>
  /\ CanonIdle /\ SignIdle /\ PkgIdle /\ TwoIdle /\ ClientIdle
  /\ RequestIdle /\ MigrationIdle

HashTree == hTrees[hRun]

\* hashDirectory(dirPath) is called: getAllFiles issues readdir(dirPath).
HashStart ==
  /\ hPc = "idle"
  /\ hPc' = "listing"
  /\ hPending' = {HashRoot}
  /\ hListing' = NoFiles
  /\ hFiles' = <<>> /\ hSorted' = <<>> /\ hContents' = <<>>
  /\ UNCHANGED <<hTrees, hEdit, hRun, hDigest, hashOthers>>

\* One readdir returns, its entries in an order of the file system's choice;
\* getAllFiles is called at once for every entry that is a directory.
ReaddirReturns ==
  /\ hPc = "listing"
  /\ \E d \in hPending : \E order \in Perms(Entries(HashTree, d)) :
       /\ hListing' = [x \in DOMAIN hListing \cup {d} |-> IF x = d THEN order ELSE hListing[x]]
       /\ hPending' = (hPending \ {d})
                        \cup { Append(d, n) : n \in { m \in Entries(HashTree, d) :
                                                       IsDirectory(HashTree, Append(d, m)) } }
  /\ UNCHANGED <<hPc, hTrees, hEdit, hRun, hFiles, hSorted, hContents, hDigest, hashOthers>>

\* Every Promise.all has resolved: files is the flattened list, then sorted.
FilesResolved ==
  /\ hPc = "listing" /\ hPending = {}
  /\ hFiles' = getAllFiles(HashTree, hListing, HashRoot)
  /\ hSorted' = SortFiles(hFiles')
  /\ hPc' = "read"
  /\ UNCHANGED <<hTrees, hEdit, hRun, hPending, hListing, hContents, hDigest, hashOthers>>

\* One pass of the loop: await fs.readFile(file); contents.push(content).
ReadNextFile ==
  /\ hPc = "read" /\ Len(hContents) < Len(hSorted)
  /\ hContents' = Append(hContents, HashTree[FileAt(HashTree, hSorted[Len(hContents) + 1])])
  /\ UNCHANGED <<hPc, hTrees, hEdit, hRun, hPending, hListing, hFiles, hSorted, hDigest,
                 hashOthers>>

\* The digest of the concatenation is returned.
DigestReturned ==
  /\ hPc = "read" /\ Len(hContents) = Len(hSorted)
  /\ hDigest' = [hDigest EXCEPT ![hRun] = Sha256(Combine(hContents))]
  /\ hPc' = "hashed"
  /\ UNCHANGED <<hTrees, hEdit, hRun, hPending, hListing, hFiles, hSorted, hContents,
                 hashOthers>>

\* Between two calls of hashDirectory the tree is left as it is or edited once.
EditTree ==
  /\ hPc = "hashed" /\ hRun = 1
  /\ \E kind \in EditKinds : \E t2 \in Edited(hTrees[1], kind) :
       hEdit' = kind /\ hTrees' = <<hTrees[1], t2>>
  /\ hRun' = 2 /\ hPc' = "idle"
  /\ hPending' = {} /\ hListing' = NoFiles /\ hFiles' = <<>> /\ hSorted' = <<>>
  /\ hContents' = <<>>
  /\ UNCHANGED <<hDigest, hashOthers>>

HashDone == hPc = "hashed" /\ hRun = 2

HashNext ==
  HashStart \/ ReaddirReturns \/ FilesResolved \/ ReadNextFile \/ DigestReturned \/ EditTree

SpecHash == HashInit /\ [][HashNext]_vars

\* The path strings of a tree's files in ascending order, and their contents
\* concatenated in that order.
PathsInOrder(t) ==
  CHOOSE s \in Perms({ PathStr(p) : p \in DOMAIN t }) :
    \A i, j \in DOMAIN s : i < j => LexLess(s[i], s[j])
BytesInPathOrder(t) ==
  LET order == PathsInOrder(t) IN Flatten([i \in DOMAIN order |-> t[FileAt(t, order[i])]])

\* C6: whatever order each readdir returns its entries in and whichever
\* readdir completes first, the digest is that of the file contents
\* concatenated in the sorted order of their paths; two runs on the same
\* files return the same digest.
C6_HashOrderIndependent ==
  /\ \A r \in 1..2 : hDigest[r] # <<>> => hDigest[r] = Sha256(BytesInPathOrder(hTrees[r]))
  /\ (HashDone /\ hEdit = "same") => hDigest[1] = hDigest[2]

\* A run has returned a digest of at least two files with different contents
\* that getAllFiles had listed in another order than the sorted one.
C6_Witness ==
  /\ HashDone /\ hEdit = "same"
  /\ Len(hFiles) >= 2 /\ hFiles # hSorted
  /\ \E i, j \in DOMAIN hContents : hContents[i] # hContents[j]

\* C7: changing one byte of one file, all paths and all other files unchanged,
\* changes the bytes digested and the digest.
C7_ByteChangeChangesDigest ==
  (HashDone /\ hEdit = "byte") =>
    /\ BytesInPathOrder(hTrees[1]) # BytesInPathOrder(hTrees[2])
    /\ hDigest[1] # hDigest[2]

\* Both trees are hashed; they hold the same three paths and differ in one byte
\* of one file.
C7_Witness ==
  /\ HashDone /\ hEdit = "byte"
  /\ DOMAIN hTrees[1] = HashPaths /\ DOMAIN hTrees[2] = HashPaths
  /\ Cardinality({ p \in HashPaths : hTrees[1][p] # hTrees[2][p] }) = 1

\* C8: adding, removing or renaming a file changes the digest.
C8_PathChangeChangesDigest ==
  (HashDone /\ hEdit \in {"add", "remove", "rename"}) => hDigest[1] # hDigest[2]

(***************************************************************************)
(* Key generation, derivePublicKey and signExtension                       *)
(***************************************************************************)

SignExtensionOverHexOfHash(fsys, listing, extensionPath, privateKeyHex) ==
  LET privateKeyBuffer == FromHex(privateKeyHex)
      imported == ImportPkcs8(privateKeyBuffer)
      hash == hashDirectory(fsys, listing, extensionPath)
  IN IF ~imported.ok THEN NoSignResult
     ELSE [ok |-> TRUE,
           signature |-> ToHex(Ed25519Sign(imported.seed, ToHex(hash))),
           publicKey |-> ToHex(derivePublicKey(privateKeyBuffer)),
           hash |-> ToHex(hash)]

\* signExtension(extensionPath, privateKeyHex); ok is FALSE where importKey
\* throws.
signExtension(fsys, listing, extensionPath, privateKeyHex) ==
  LET privateKeyBuffer == FromHex(privateKeyHex)
      imported == ImportPkcs8(privateKeyBuffer)
      hash == hashDirectory(fsys, listing, extensionPath)
  IN IF ~imported.ok THEN NoSignResult
     ELSE [ok |-> TRUE,
           signature |-> ToHex(Ed25519Sign(imported.seed, hash)),
           publicKey |-> ToHex(derivePublicKey(privateKeyBuffer)),
           hash |-> ToHex(hash)]

SignInit ==
  /\ sPc = "start"
  /\ sKeypair = NoKeypair
  /\ sBundle \in HashTrees
  /\ sDerived = <<>>
  /\ sResult = NoSignResult
  /\ CanonIdle /\ HashIdle /\ PkgIdle /\ TwoIdle /\ ClientIdle
  /\ RequestIdle /\ MigrationIdle

\* generateKeypair(): the engine draws a seed.
GenerateKeypair ==
  /\ sPc = "start"
  /\ \E seed \in Seeds : sKeypair' = generateKeypair(seed)
  /\ sPc' = "generated"
  /\ UNCHANGED <<sBundle, sDerived, sResult, signOthers>>

\* derivePublicKey(Buffer.from(keypair.privateKey, "hex"))
DerivePublicKey ==
  /\ sPc = "generated" /\ sDerived = <<>>
  /\ ImportPkcs8(FromHex(sKeypair.privateKey)).ok
  /\ sDerived' = derivePublicKey(FromHex(sKeypair.privateKey))
  /\ UNCHANGED <<sPc, sKeypair, sBundle, sResult, signOthers>>

\* signExtension(bundle, keypair.privateKey); the directory reads return
\* their entries in ascending or in descending order.
SignExtension ==
  /\ sPc = "generated"
  /\ \E descending \in BOOLEAN :
       sResult' = signExtension(sBundle, ListingOf(sBundle, HashRoot, descending), HashRoot,
                                sKeypair.privateKey)
  /\ sPc' = "signed"
  /\ UNCHANGED <<sKeypair, sBundle, sDerived, signOthers>>

SignNext == GenerateKeypair \/ DerivePublicKey \/ SignExtension

SpecSign == SignInit /\ [][SignNext]_vars

\* C4: the signature signExtension returns for a generated key verifies under
\* the returned public key against the digest of the bundle, and the returned
\* public key is the generated one.
C4_SignatureVerifies ==
  sPc = "signed" =>
    /\ sResult.ok
    /\ Ed25519Verify(FromHex(sResult.publicKey), FromHex(sResult.signature),
                     Sha256(BytesInPathOrder(sBundle)))
    /\ sResult.publicKey = sKeypair.publicKey

\* A bundle of three files has been signed with a generated key.
C4_Witness ==
  /\ sPc = "signed" /\ sResult.ok
  /\ DOMAIN sBundle = HashPaths
  /\ sResult.signature # <<>>

\* C10: derivePublicKey of a generated private key is the generated public key.
C10_DerivedKeyIsPublicKey ==
  sDerived # <<>> => ToHex(sDerived) = sKeypair.publicKey

\* derivePublicKey has returned the key of a generated pair.
C10_Witness ==
  /\ sDerived # <<>>
  /\ sKeypair # NoKeypair
  /\ ImportPkcs8(FromHex(sKeypair.privateKey)).seed # sDerived

(***************************************************************************)
(* packageExtension: names, configuration and the project on disk          *)
(***************************************************************************)

\* File and directory names, as character codes.
Nm ==
  [ dist |-> <<100, 105, 115, 116>>,
    haextension |-> <<104, 97, 101, 120, 116, 101, 110, 115, 105, 111, 110>>,
    manifestJson |-> <<109, 97, 110, 105, 102, 101, 115, 116, 46, 106, 115, 111, 110>>,
    publicKey |-> <<112, 117, 98, 108, 105, 99, 46, 107, 101, 121>>,
    privateKey |-> <<112, 114, 105, 118, 97, 116, 101, 46, 107, 101, 121>>,
    config |-> <<104, 97, 101, 120, 116, 101, 110, 115, 105, 111, 110, 46, 99, 111, 110,
                 102, 105, 103, 46, 106, 115, 111, 110>>,
    xJs |-> <<120, 46, 106, 115>>,
    dotEnv |-> <<46, 101, 110, 118>>,
    iconPng |-> <<105, 99, 111, 110, 46, 112, 110, 103>>,
    keys |-> <<107, 101, 121, 115>>,
    secrets |-> <<115, 101, 99, 114, 101, 116, 115>>,
    tmp |-> <<116, 109, 112>>,
    haexSigning |-> <<104, 97, 101, 120, 45, 115, 105, 103, 110, 105, 110, 103, 45>> ]

\* Property names of the manifest and of haextension.config.json.
Key ==
  [ name |-> <<110, 97, 109, 101>>,
    version |-> <<118, 101, 114, 115, 105, 111, 110>>,
    public_key |-> <<112, 117, 98, 108, 105, 99, 95, 107, 101, 121>>,
    signature |-> <<115, 105, 103, 110, 97, 116, 117, 114, 101>>,
    dev |-> <<100, 101, 118>>,
    haextension_dir |-> <<104, 97, 101, 120, 116, 101, 110, 115, 105, 111, 110, 95, 100,
                          105, 114>> ]

\* ".xt"
EXTENSION_FILE_EXTENSION == <<46, 120, 116>>

\* path.join(process.cwd(), "haextension.config.json"); the working directory
\* is the root of the paths.
ConfigPath == <<Nm.config>>

\* readHaextensionConfig(): the parsed file, or null (ok FALSE) when the file
\* does not exist or does not parse.
readHaextensionConfig(fsys) ==
  IF ConfigPath \notin DOMAIN fsys THEN [ok |-> FALSE, val |-> JNum(0)]
  ELSE JsonParse(Utf8Decode(fsys[ConfigPath]))

\* value?.key: the property, undefined (here the number 0) when value is not
\* an object or has no such property.
OptionalProp(val, key) ==
  IF val.t = "o" /\ HasOwn(val, key) THEN GetProp(val, key) ELSE JNum(0)

\* dir || "haextension"
DirOrDefault(dir) == IF dir.t = "s" /\ dir.v # <<>> THEN <<dir.v>> ELSE <<Nm.haextension>>

\* getExtensionDir(): config?.dev?.haextension_dir || "haextension"
getExtensionDir(fsys) ==
  DirOrDefault(OptionalProp(OptionalProp(readHaextensionConfig(fsys).val, Key.dev),
                            Key.haextension_dir))

ManifestPath(fsys) == Append(getExtensionDir(fsys), Nm.manifestJson)

\* The seed of the developer's key, and the seed of another key.
SignerSeed == [i \in 1..SeedLen |-> 2]
OtherSeed == [i \in 1..SeedLen |-> 1]

\* Manifest documents a project may hold: keys in sorted order; in the order
\* "haexhub init" writes them; without public_key and signature; with a name
\* holding a byte that is not UTF-8 (Latin-1 e-acute); holding the key and the
\* signature of an earlier release; with a field named __proto__.
ManifestDoc(keys, name, publicKey, signature) ==
  BuildObject(keys, [i \in DOMAIN keys |->
    CASE keys[i] = Key.name -> JStr(name)
      [] keys[i] = Key.version -> JStr(<<49>>)
      [] keys[i] = Key.public_key -> JStr(publicKey)
      [] keys[i] = Key.signature -> JStr(signature)
      [] keys[i] = ProtoKey -> JStr(<<120>>)])

InitOrder == <<Key.name, Key.version, Key.public_key, Key.signature>>

ManifestFiles ==
  { JsonStringify(ManifestDoc(<<Key.name, Key.public_key, Key.signature, Key.version>>,
                              <<100>>, <<>>, <<>>)),
    JsonStringify(ManifestDoc(InitOrder, <<100>>, <<>>, <<>>)) \o <<Ch.nl>>,
    JsonStringify(ManifestDoc(<<Key.version, Key.name>>, <<100>>, <<>>, <<>>)),
    JsonStringify(ManifestDoc(InitOrder, <<233>>, <<>>, <<>>)),
    JsonStringify(ManifestDoc(InitOrder, <<100>>, ToHex(Ed25519Public(SignerSeed)),
                              <<97, 98>>)),
    JsonStringify(ManifestDoc(<<Key.name, ProtoKey, Key.version>>, <<100>>, <<>>, <<>>)),
    \* not JSON
    <<Ch.lbrace>> }

\* Contents of the private key file: the hex PKCS#8 export of the key, or the
\* same cut short by one character.
KeyFiles ==
  LET hex == ToHex(ExportPkcs8(SignerSeed)) IN {hex, SubSeq(hex, 1, Len(hex) - 1)}

\* Where the private key file may lie: in the extension directory, in a
\* subdirectory of it, in the bundle directory, outside of both.
KeyPaths ==
  { <<Nm.haextension, Nm.privateKey>>, <<Nm.haextension, Nm.keys, Nm.privateKey>>,
    <<Nm.dist, Nm.privateKey>>, <<Nm.secrets, Nm.privateKey>> }

\* fsys with the files of `more` added or replaced.
WriteFiles(fsys, more) ==
  [q \in DOMAIN fsys \cup DOMAIN more |-> IF q \in DOMAIN more THEN more[q] ELSE fsys[q]]

File(p, data) == [q \in {p} |-> data]
Optional(present, p, data) == IF present THEN File(p, data) ELSE NoFiles

\* Projects on disk: the bundle in dist/ (x.js, perhaps a top-level dotfile),
\* the extension directory (perhaps a manifest, a public key file that is the
\* signer's or another's, an icon), the private key file, perhaps
\* haextension.config.json.
Projects ==
  { WriteFiles(WriteFiles(WriteFiles(WriteFiles(WriteFiles(WriteFiles(
      File(<<Nm.dist, Nm.xJs>>, <<1>>),
      Optional(pr.dotfile, <<Nm.dist, Nm.dotEnv>>, <<2>>)),
      Optional(pr.manifest # <<>>, <<Nm.haextension, Nm.manifestJson>>, pr.manifest)),
      Optional(pr.publicKey # <<>>, <<Nm.haextension, Nm.publicKey>>, pr.publicKey)),
      Optional(pr.icon, <<Nm.haextension, Nm.iconPng>>, <<3>>)),
      Optional(pr.config, ConfigPath, <<Ch.lbrace, Ch.rbrace>>)),
      File(pr.keyPath, pr.key))
    : pr \in [ dotfile : BOOLEAN, manifest : ManifestFiles \cup {<<>>},
               publicKey : { <<>>, ToHex(Ed25519Public(SignerSeed)),
                             ToHex(Ed25519Public(OtherSeed)) },
               icon : BOOLEAN, config : BOOLEAN, keyPath : KeyPaths, key : KeyFiles ] }

\* Values of Date.now() when the staging directory is named.
Clock == {7}

PkgInit ==
  /\ fs \in Projects
  /\ fsDirs = {}
  /\ pKeyPath \in KeyPaths /\ pKeyPath \in DOMAIN fs
  \* the command line reads the key file and passes its text on
  /\ pArgs = [extensionPath |-> <<Nm.dist>>, outputPath |-> <<>>, privateKeyHex |-> Utf8Decode(fs[pKeyPath])]
  /\ pFs0 = fs
  /\ run = [NoRun EXCEPT !.pc = "load"]
  /\ out = NoOut
  /\ pHashed = NoFiles /\ pArchive = {} /\ pResult = PendingPromise
  /\ CanonIdle /\ HashIdle /\ SignIdle /\ TwoIdle /\ ClientIdle
  /\ RequestIdle /\ MigrationIdle

(***************************************************************************)
(* packageExtension: preparation, staging, hashing, signing                *)
(***************************************************************************)

Rejected(err) == [state |-> "rejected", value |-> <<>>, error |-> err]
Resolved(val) == [state |-> "resolved", value |-> val, error |-> ""]

\* The async function throws before it has returned its promise of the
\* archive: the promise it returned rejects with the error.
Throw(err) ==
  /\ run' = [run EXCEPT !.pc = "end"]
  /\ pResult' = Rejected(err)

\* What a failed fs.writeFile may leave at p: the file as it was, or, opened
\* and truncated but not written, an empty file.
AfterFailedWrite(fsys, p) == {fsys, WriteFile(fsys, p, <<>>)}

RunManifestPath == Append(run.extensionDir, Nm.manifestJson)

\* Lines 113-116: read the manifest as UTF-8 text and parse it.
LoadManifest ==
  /\ run.pc = "load"
  /\ \E extensionDir \in {getExtensionDir(fs)} :
       IF Append(extensionDir, Nm.manifestJson) \notin DOMAIN fs THEN Throw("ENOENT")
       ELSE \E text \in {Utf8Decode(fs[Append(extensionDir, Nm.manifestJson)])} :
            \E parsed \in {JsonParse(text)} :
              IF ~parsed.ok THEN Throw("SyntaxError")
              ELSE /\ run' = [run EXCEPT !.pc = "importKey",
                                         !.extensionDir = extensionDir,
                                         !.originalManifestContent = text,
                                         !.manifest = parsed.val]
                   /\ UNCHANGED pResult
  /\ UNCHANGED <<fs, fsDirs, pArgs, pKeyPath, pFs0, out, pHashed, pArchive, pkgOthers>>

\* Lines 119-126: import the private key.
ImportKey ==
  /\ run.pc = "importKey"
  /\ LET imported == ImportPkcs8(FromHex(pArgs.privateKeyHex))
     IN IF ~imported.ok THEN Throw("DataError")
        ELSE /\ run' = [run EXCEPT !.pc = "derive", !.privateKey = imported.seed]
             /\ UNCHANGED pResult
  /\ UNCHANGED <<fs, fsDirs, pArgs, pKeyPath, pFs0, out, pHashed, pArchive, pkgOthers>>

PlaceholderOfOutputsOnly(manifest, publicKeyHex) ==
  AssignProp(AssignProp(EmptyObject, Key.public_key, JStr(publicKeyHex)), Key.signature, JStr(<<>>))

PlaceholderKeepingSignature(manifest, publicKeyHex) ==
  AssignProp(manifest, Key.public_key, JStr(publicKeyHex))

\* manifest.public_key = publicKeyHex; manifest.signature = ""
Placeholder(manifest, publicKeyHex) ==
  AssignProp(AssignProp(manifest, Key.public_key, JStr(publicKeyHex)), Key.signature, JStr(<<>>))

\* Lines 127-138: derive the public key, put it and the empty signature into
\* the manifest object, canonicalise a copy.
PreparePlaceholder ==
  /\ run.pc = "derive"
  /\ LET publicKeyHex == ToHex(derivePublicKey(FromHex(pArgs.privateKeyHex)))
         manifest == Placeholder(run.manifest, publicKeyHex)
     IN run' = [run EXCEPT !.pc = "mkTemp", !.publicKeyHex = publicKeyHex,
                           !.manifest = manifest,
                           !.canonicalManifestForHashing = sortObjectKeysRecursively(manifest)]
  /\ UNCHANGED <<fs, fsDirs, pArgs, pKeyPath, pFs0, out, pHashed, pArchive, pResult, pkgOthers>>

\* path.join(tmpdir(), `haex-signing-${Date.now()}`)
TempDirAt(now) == <<Nm.tmp, Nm.haexSigning \o Digits(now)>>

\* Lines 141-143: name and make the staging directory; mkdir may fail.
MakeTempDir ==
  /\ run.pc = "mkTemp"
  /\ \E now \in Clock :
       \/ /\ run' = [run EXCEPT !.pc = "copyBundle", !.tempDir = TempDirAt(now)]
          /\ fsDirs' = fsDirs \cup {TempDirAt(now)}
          /\ UNCHANGED pResult
       \/ /\ Throw("mkdir failed")
          /\ UNCHANGED fsDirs
  /\ UNCHANGED <<fs, pArgs, pKeyPath, pFs0, out, pHashed, pArchive, pkgOthers>>

\* The part of path p below directory dir.
Rel(p, dir) == SubSeq(p, Len(dir) + 1, Len(p))

\* What the shell's * matches in a directory: the entries whose names do not
\* start with a dot.
StarMatches(fsys, dir) == { n \in Entries(fsys, dir) : n[1] # 46 }

\* cp -r "${extensionPath}/"* "${tempDir}/": the files it writes.
CopiedBundle(fsys, extensionPath, tempDir) ==
  LET src == { p \in FilesUnder(fsys, extensionPath) :
                 p[Len(extensionPath) + 1] \in StarMatches(fsys, extensionPath) }
  IN [q \in { tempDir \o Rel(p, extensionPath) : p \in src } |->
        fsys[extensionPath \o Rel(q, tempDir)]]

\* A step inside the try block throws: control passes to the finally block.
ToCleanup(err) == run' = [run EXCEPT !.pc = "cleanup", !.error = err]

\* Lines 148-149: copy the bundle; cp fails when * matches nothing.
CopyBundle ==
  /\ run.pc = "copyBundle"
  /\ IF StarMatches(fs, pArgs.extensionPath) = {}
     THEN ToCleanup("cp failed") /\ UNCHANGED fs
     ELSE /\ fs' = WriteFiles(fs, CopiedBundle(fs, pArgs.extensionPath, run.tempDir))
          /\ run' = [run EXCEPT !.pc = "copyPublicKey"]
  /\ UNCHANGED <<fsDirs, pArgs, pKeyPath, pFs0, out, pHashed, pArchive, pResult, pkgOthers>>

\* Lines 152-159: make the staged extension directory, copy public.key into
\* it when there is one.
CopyPublicKey ==
  /\ run.pc = "copyPublicKey"
  /\ LET tempExtensionDir == run.tempDir \o run.extensionDir
         publicKeyPath == Append(run.extensionDir, Nm.publicKey)
     IN /\ fsDirs' = fsDirs \cup {tempExtensionDir}
        /\ fs' = IF publicKeyPath \in DOMAIN fs
                 THEN WriteFile(fs, Append(tempExtensionDir, Nm.publicKey), fs[publicKeyPath])
                 ELSE fs
  /\ run' = [run EXCEPT !.pc = "writePlaceholder"]
  /\ UNCHANGED <<pArgs, pKeyPath, pFs0, out, pHashed, pArchive, pResult, pkgOthers>>

StagedManifestPath == Append(run.tempDir \o run.extensionDir, Nm.manifestJson)

\* Lines 162-166: write the canonical manifest with the empty signature into
\* the staged extension directory.
WritePlaceholder ==
  /\ run.pc = "writePlaceholder"
  /\ fs' = WriteFile(fs, StagedManifestPath,
                     Utf8Encode(JsonStringify(run.canonicalManifestForHashing)))
  /\ run' = [run EXCEPT !.pc = "copyConfig"]
  /\ UNCHANGED <<fsDirs, pArgs, pKeyPath, pFs0, out, pHashed, pArchive, pResult, pkgOthers>>

\* Lines 169-172: copy haextension.config.json when there is one.
CopyConfig ==
  /\ run.pc = "copyConfig"
  /\ fs' = IF ConfigPath \in DOMAIN fs
           THEN WriteFile(fs, Append(run.tempDir, Nm.config), fs[ConfigPath])
           ELSE fs
  /\ run' = [run EXCEPT !.pc = "hash"]
  /\ UNCHANGED <<fsDirs, pArgs, pKeyPath, pFs0, out, pHashed, pArchive, pResult, pkgOthers>>

\* The files below dir, by their paths relative to dir.
TreeAt(fsys, dir) ==
  [r \in { Rel(p, dir) : p \in FilesUnder(fsys, dir) } |-> fsys[dir \o r]]

\* Line 175: hash the staging directory; its directory reads return their
\* entries in ascending or in descending order.
HashStaged ==
  /\ run.pc = "hash"
  /\ \E descending \in BOOLEAN :
       run' = [run EXCEPT !.pc = "cleanup",
                          !.contentHash =
                            hashDirectory(fs, ListingOf(fs, run.tempDir, descending), run.tempDir)]
  /\ pHashed' = TreeAt(fs, run.tempDir)
  /\ UNCHANGED <<fs, fsDirs, pArgs, pKeyPath, pFs0, out, pArchive, pResult, pkgOthers>>

\* A copy, a write or a read of the staging steps fails.
StagingFails ==
  /\ run.pc \in {"copyBundle", "copyPublicKey", "writePlaceholder", "copyConfig", "hash"}
  /\ ToCleanup("staging failed")
  /\ UNCHANGED <<fs, fsDirs, pArgs, pKeyPath, pFs0, out, pHashed, pArchive, pResult, pkgOthers>>

HashReadFailureSkipped ==
  /\ run.pc = "hash"
  /\ \E failed \in FilesUnder(fs, run.tempDir), descending \in BOOLEAN :
       \E rest \in {RemoveAll(fs, {failed})} :
         run' = [run EXCEPT !.pc = "cleanup",
                            !.contentHash =
                              hashDirectory(rest, ListingOf(rest, run.tempDir, descending),
                                            run.tempDir)]
  /\ pHashed' = TreeAt(fs, run.tempDir)
  /\ UNCHANGED <<fs, fsDirs, pArgs, pKeyPath, pFs0, out, pArchive, pResult, pkgOthers>>

\* Lines 55-59 within line 175: readFile rejects for one of the enumerated
\* files, deleted or made unreadable since readdir listed it; hashDirectory
\* rejects with that error, the buffers read so far are dropped.
HashReadFails ==
  /\ run.pc = "hash"
  /\ \E failed \in FilesUnder(fs, run.tempDir) : ToCleanup("ENOENT")
  /\ UNCHANGED <<fs, fsDirs, pArgs, pKeyPath, pFs0, out, pHashed, pArchive, pResult, pkgOthers>>

CleanupTempThenRehash ==
  /\ run.pc = "cleanup"
  /\ run' = [run EXCEPT !.pc = "hash"]
  /\ UNCHANGED <<fs, fsDirs, pArgs, pKeyPath, pFs0, out, pHashed, pArchive, pResult, pkgOthers>>

\* Lines 176-179, the finally block: remove the staging directory, ignoring a
\* failure to; then the error thrown in the try block, if any, propagates.
CleanupTemp ==
  /\ run.pc = "cleanup"
  /\ \/ /\ fs' = RemoveAll(fs, FilesUnder(fs, run.tempDir))
        /\ fsDirs' = { d \in fsDirs : ~IsPrefix(run.tempDir, d) }
     \/ UNCHANGED <<fs, fsDirs>>
  /\ IF run.error # ""
     THEN Throw(run.error)
     ELSE run' = [run EXCEPT !.pc = "sign"] /\ UNCHANGED pResult
  /\ UNCHANGED <<pArgs, pKeyPath, pFs0, out, pHashed, pArchive, pkgOthers>>

\* Lines 182-187: sign the content hash.
SignHash ==
  /\ run.pc = "sign"
  /\ \/ /\ run' = [run EXCEPT !.pc = "writeFinal",
                             !.signatureHex = ToHex(Ed25519Sign(run.privateKey, run.contentHash))]
        /\ UNCHANGED pResult
     \/ Throw("sign failed")
  /\ UNCHANGED <<fs, fsDirs, pArgs, pKeyPath, pFs0, out, pHashed, pArchive, pkgOthers>>

\* Lines 190-191: put the signature into the manifest object and write it to
\* the manifest file; the write may fail.
FinalManifestUnsigned(manifest, signatureHex) == manifest

\* manifest.signature = signatureHex
FinalManifest(manifest, signatureHex) ==
  AssignProp(manifest, Key.signature, JStr(signatureHex))

WriteFinal ==
  /\ run.pc = "writeFinal"
  /\ LET manifest == FinalManifest(run.manifest, run.signatureHex)
     IN \/ /\ fs' = WriteFile(fs, RunManifestPath, Utf8Encode(JsonStringify(manifest)))
           /\ run' = [run EXCEPT !.pc = "archive", !.manifest = manifest]
           /\ UNCHANGED pResult
        \/ /\ fs' \in AfterFailedWrite(fs, RunManifestPath)
           /\ Throw("write failed")
  /\ UNCHANGED <<fsDirs, pArgs, pKeyPath, pFs0, out, pHashed, pArchive, pkgOthers>>

(***************************************************************************)
(* packageExtension: the archive, its events and the restoring writes      *)
(***************************************************************************)

Dash == <<45>>

\* outputPath || `${manifest.name}-${manifest.version}${EXTENSION_FILE_EXTENSION}`
FinalOutputPath(outputPath, manifest) ==
  IF outputPath # <<>> THEN outputPath
  ELSE << GetProp(manifest, Key.name).v \o Dash \o GetProp(manifest, Key.version).v
          \o EXTENSION_FILE_EXTENSION >>

\* Lines 196-199 and the synchronous body of the promise executor, lines
\* 201-239: open the output stream, register the handlers, queue the entries
\* (whether the config file exists is looked up now) and finalize.
StartArchive ==
  /\ run.pc = "archive"
  /\ run' = [run EXCEPT !.pc = "promise",
                        !.finalOutputPath = FinalOutputPath(pArgs.outputPath, run.manifest),
                        !.configQueued = ConfigPath \in DOMAIN fs]
  /\ out' = [out EXCEPT !.stream = "pending", !.archive = "queued"]
  /\ UNCHANGED <<fs, fsDirs, pArgs, pKeyPath, pFs0, pHashed, pArchive, pResult, pkgOthers>>

\* fs.createWriteStream has opened (created or truncated) the output file.
OutputOpens ==
  /\ out.stream = "pending"
  /\ out' = [out EXCEPT !.stream = "open"]
  /\ fs' = WriteFile(fs, run.finalOutputPath, <<>>)
  /\ UNCHANGED <<fsDirs, pArgs, pKeyPath, pFs0, run, pHashed, pArchive, pResult, pkgOthers>>

NoDotComponent(rel) == \A i \in DOMAIN rel : rel[i][1] # 46

\* What the archiver was given, lines 220-236, as entries of the archive:
\* archive.directory(extensionPath, false): every file below the bundle path,
\*   named by its path below it;
\* archive.glob("**/*", {cwd: extensionDir, ignore: ["private.key"],
\*   dot: false}, {prefix: extensionDir}): the files below the extension
\*   directory with no dot component whose relative path is not private.key;
\* archive.file(configPath, {name: "haextension.config.json"}).
ArchiveEntries(fsys, extensionPath, extensionDir, configQueued) ==
  { [name |-> Rel(p, extensionPath), source |-> p, data |-> fsys[p]]
      : p \in FilesUnder(fsys, extensionPath) }
  \cup
  { [name |-> p, source |-> p, data |-> fsys[p]]
      : p \in { q \in FilesUnder(fsys, extensionDir) :
                  /\ NoDotComponent(Rel(q, extensionDir))
                  /\ Rel(q, extensionDir) # <<Nm.privateKey>> } }
  \cup
  { [name |-> <<Nm.config>>, source |-> ConfigPath, data |-> fsys[ConfigPath]]
      : p \in { q \in {ConfigPath} : configQueued /\ q \in DOMAIN fsys } }

\* The archiver has read the queued files and piped the archive out.
ArchiverReads ==
  /\ out.archive = "queued"
  /\ out.stream \in {"pending", "open"}
  /\ out' = [out EXCEPT !.archive = "done"]
  /\ pArchive' = ArchiveEntries(fs, pArgs.extensionPath, run.extensionDir, run.configQueued)
  /\ UNCHANGED <<fs, fsDirs, pArgs, pKeyPath, pFs0, run, pHashed, pResult, pkgOthers>>

Settle(outcome) == pResult' = IF pResult.state = "pending" THEN outcome ELSE pResult

\* Line 218, archive.on("error", reject): the archiver fails on an entry.
ArchiverErrors ==
  /\ out.archive = "queued"
  /\ out' = [out EXCEPT !.archive = "error"]
  /\ Settle(Rejected("archiver error"))
  /\ UNCHANGED <<fs, fsDirs, pArgs, pKeyPath, pFs0, run, pHashed, pArchive, pkgOthers>>

ArchiveBytes == <<80, 75>>

\* The output stream emits 'close' after the archiver ended it; the handler of
\* lines 204-209 starts the write that restores the manifest.
OutputCloses ==
  /\ out.stream = "open"
  /\ out.archive \in {"done", "error"}
  /\ out' = [out EXCEPT !.stream = "closed", !.closeWrite = "pending"]
  /\ fs' = IF out.archive = "done" THEN WriteFile(fs, run.finalOutputPath, ArchiveBytes) ELSE fs
  /\ UNCHANGED <<fsDirs, pArgs, pKeyPath, pFs0, run, pHashed, pArchive, pResult, pkgOthers>>

\* The output stream emits 'error' and, destroyed, 'close': the handler of
\* lines 210-216 and the handler of lines 204-209 each start a restoring write.
OutputErrors ==
  /\ out.stream \in {"pending", "open"}
  /\ out' = [out EXCEPT !.stream = "errored", !.errorWrite = "pending", !.closeWrite = "pending"]
  /\ UNCHANGED <<fs, fsDirs, pArgs, pKeyPath, pFs0, run, pHashed, pArchive, pResult, pkgOthers>>

RestoredManifest(fsys) ==
  WriteFile(fsys, RunManifestPath, Utf8Encode(run.originalManifestContent))

\* Lines 206-208: await fs.writeFile(manifestPath, originalManifestContent);
\* resolve(finalOutputPath).  When the write fails the handler's promise
\* rejects and nothing settles the returned promise.
CloseWriteCompletes ==
  /\ out.closeWrite = "pending"
  /\ \/ /\ fs' = RestoredManifest(fs)
        /\ out' = [out EXCEPT !.closeWrite = "done"]
        /\ Settle(Resolved(run.finalOutputPath))
     \/ /\ fs' \in AfterFailedWrite(fs, RunManifestPath)
        /\ out' = [out EXCEPT !.closeWrite = "failed"]
        /\ UNCHANGED pResult
  /\ UNCHANGED <<fsDirs, pArgs, pKeyPath, pFs0, run, pHashed, pArchive, pkgOthers>>

\* Lines 212-215: fs.writeFile(manifestPath, originalManifestContent)
\*   .finally(() => reject(err)).
ErrorWriteCompletes ==
  /\ out.errorWrite = "pending"
  /\ \/ /\ fs' = RestoredManifest(fs)
        /\ out' = [out EXCEPT !.errorWrite = "done"]
     \/ /\ fs' \in AfterFailedWrite(fs, RunManifestPath)
        /\ out' = [out EXCEPT !.errorWrite = "failed"]
  /\ Settle(Rejected("output error"))
  /\ UNCHANGED <<fsDirs, pArgs, pKeyPath, pFs0, run, pHashed, pArchive, pkgOthers>>

PkgNext ==
  \/ LoadManifest
  \/ ImportKey
  \/ PreparePlaceholder
  \/ MakeTempDir
  \/ CopyBundle
  \/ CopyPublicKey
  \/ WritePlaceholder
  \/ CopyConfig
  \/ HashStaged
  \/ StagingFails
  \/ HashReadFails
  \/ CleanupTemp
  \/ SignHash
  \/ WriteFinal
  \/ StartArchive
  \/ OutputOpens
  \/ ArchiverReads
  \/ ArchiverErrors
  \/ OutputCloses
  \/ OutputErrors
  \/ CloseWriteCompletes
  \/ ErrorWriteCompletes

SpecPkg == PkgInit /\ [][PkgNext]_vars

(***************************************************************************)
(* packageExtension: properties                                            *)
(***************************************************************************)

\* The manifest file of a file system: its bytes, or nothing.
ManifestBytes(fsys) ==
  IF ManifestPath(fsys) \in DOMAIN fsys THEN <<fsys[ManifestPath(fsys)]>> ELSE <<>>

\* C1: at the moment the returned promise settles, by success or by failure
\* at any step, the manifest file on disk holds the bytes it held before the
\* run started.
C1_ManifestRestoredWhenSettled ==
  [][(pResult.state = "pending" /\ pResult'.state # "pending")
       => ManifestBytes(fs') = ManifestBytes(pFs0)]_vars

\* The run resolved with the archive written and its output stream closed.
PackagedOk ==
  pResult.state = "resolved" /\ out.archive = "done" /\ out.stream = "closed"

\* C2: after a successful run no entry of the archive and no file of the
\* hashed staged tree is the private key file or contains the private key
\* string, wherever the key file lies.
C2_NoPrivateKeyShipped ==
  PackagedOk =>
    /\ \A e \in pArchive :
         e.source # pKeyPath /\ ~Includes(e.data, Utf8Encode(pArgs.privateKeyHex))
    /\ \A r \in DOMAIN pHashed :
         ~Includes(pHashed[r], Utf8Encode(pArgs.privateKeyHex))

\* The manifest that was staged, with the signature in place of the
\* placeholder, as the bytes JSON.stringify(_, null, 2) gives.
StagedManifestSigned ==
  Utf8Encode(JsonStringify(AssignProp(JsonParse(Utf8Decode(pHashed[RunManifestPath])).val,
                                      Key.signature, JStr(run.signatureHex))))

\* C3: after a successful run the files of the hashed staged tree and the
\* entries of the archive are the same relative paths, every file but the
\* manifest has the same bytes in both, and the archived manifest is the
\* staged one with the real signature in place of the placeholder.
C3_StagedTreeIsArchivedTree ==
  PackagedOk =>
    /\ { e.name : e \in pArchive } = DOMAIN pHashed
    /\ \A e \in pArchive :
         (e.name \in DOMAIN pHashed /\ e.name # RunManifestPath) => e.data = pHashed[e.name]
    /\ \A e \in pArchive :
         (e.name \in DOMAIN pHashed /\ e.name = RunManifestPath) => e.data = StagedManifestSigned

\* The manifest the run was given, parsed.
InputManifest == JsonParse(Utf8Decode(pFs0[ManifestPath(pFs0)])).val

\* The manifest of the hashed tree has the empty signature, the public key
\* derived from the private key, and every other field of the input manifest.
HashedManifestIsPlaceholder ==
  pHashed # NoFiles =>
    \E hashed \in {JsonParse(Utf8Decode(pHashed[RunManifestPath]))} :
      /\ hashed.ok /\ hashed.val.t = "o"
      /\ OptionalProp(hashed.val, Key.signature) = JStr(<<>>)
      /\ OptionalProp(hashed.val, Key.public_key)
           = JStr(ToHex(derivePublicKey(FromHex(pArgs.privateKeyHex))))
      /\ \A k \in (Range(OwnKeys(hashed.val)) \cup Range(OwnKeys(InputManifest)))
                    \ {Key.signature, Key.public_key} :
           /\ HasOwn(hashed.val, k) /\ HasOwn(InputManifest, k)
           /\ GetProp(hashed.val, k) = sortObjectKeysRecursively(GetProp(InputManifest, k))

\* C5: the manifest in the tree that is hashed carries the empty signature,
\* the derived public key and the other fields of the input manifest; the
\* manifest file differs from the input only once the hash and the signature
\* exist.
C5_HashCoversPlaceholder ==
  /\ HashedManifestIsPlaceholder
  /\ ManifestBytes(fs) # ManifestBytes(pFs0)
       => (run.contentHash # <<>> /\ run.signatureHex # <<>>)

\* The entries of the archive that hold the manifest.
ArchivedManifests == { e \in pArchive : e.name = RunManifestPath }

\* C11: the manifest in the archive of a successful run carries the Ed25519
\* signature over the content hash computed in that run and the public key
\* derived from the private key; the archiver read the manifest file before
\* the original was restored, so the entry is the finalized manifest.
C11_ArchivedManifestIsSigned ==
  PackagedOk =>
    /\ ArchivedManifests # {}
    /\ \A e \in ArchivedManifests :
         \E archived \in {JsonParse(Utf8Decode(e.data))} :
           /\ archived.ok
           /\ OptionalProp(archived.val, Key.signature)
                = JStr(ToHex(Ed25519Sign(ImportPkcs8(FromHex(pArgs.privateKeyHex)).seed,
                                         run.contentHash)))
           /\ OptionalProp(archived.val, Key.public_key)
                = JStr(ToHex(derivePublicKey(FromHex(pArgs.privateKeyHex))))

\* A run succeeded on a manifest that held the key and the signature of an
\* earlier release, and the original has been restored on disk.
C11_Witness ==
  /\ PackagedOk
  /\ ArchivedManifests # {}
  /\ OptionalProp(InputManifest, Key.signature) = JStr(<<97, 98>>)
  /\ fs[RunManifestPath] = pFs0[RunManifestPath]

\* C12: once a step has failed and the returned promise is settled, it is
\* rejected with the error of that step: the error thrown while staging, the
\* archiver's error or the output stream's error; neither a restoring write
\* that fails nor one that succeeds replaces it.
C12_RejectsWithPrimaryError ==
  /\ (run.pc = "end" /\ run.error # "") => pResult = Rejected(run.error)
  /\ (out.archive = "error" /\ out.stream # "errored")
       => pResult = Rejected("archiver error")
  /\ (out.stream = "errored" /\ pResult.state # "pending")
       => pResult \in {Rejected("output error"), Rejected("archiver error")}

\* The run is over: the async function threw, or the promise it returned is
\* settled.
RunEnded == run.pc = "end" \/ pResult.state # "pending"

\* C13: once a run that created its staging directory has ended, on success
\* or after a failure while staging or hashing, neither the directory nor a
\* file under it exists.
C13_TempDirGoneWhenEnded ==
  (RunEnded /\ run.tempDir # <<>>)
    => /\ FilesUnder(fs, run.tempDir) = {}
       /\ \A d \in fsDirs : ~IsPrefix(run.tempDir, d)

\* C14: when the run has failed after the output stream was created, by an
\* error of the archiver or of the stream, no file is left at the output
\* path.
C14_NoArchiveLeftAfterFailure ==
  (pResult.state = "rejected" /\ out.stream # "none")
    => run.finalOutputPath \notin DOMAIN fs

(***************************************************************************)
(* Two packageExtension calls in flight on the same project                *)
(***************************************************************************)

Invocations == {1, 2}

\* The last value Date.now() takes while the calls run.
MaxClock == 8

\* The project has no haextension.config.json: getExtensionDir() is the
\* default directory.
TwoManifestPath == <<Nm.haextension, Nm.manifestJson>>

TwoManifests ==
  { JsonStringify(ManifestDoc(<<Key.name, Key.public_key, Key.signature, Key.version>>,
                              <<100>>, <<>>, <<>>)),
    JsonStringify(ManifestDoc(InitOrder, <<100>>, <<>>, <<>>)) \o <<Ch.nl>> }

TwoProjects ==
  { WriteFiles(File(<<Nm.dist, Nm.xJs>>, <<1>>), File(TwoManifestPath, text))
    : text \in TwoManifests }

\* The locals of one call before any is assigned.
NoCall ==
  [pc |-> "load", originalManifestContent |-> <<>>, manifest |-> EmptyObject,
   canonicalManifestForHashing |-> EmptyObject, tempDir |-> <<>>, error |-> "",
   contentHash |-> <<>>, hashed |-> NoFiles, result |-> "pending"]

TwoInit ==
  /\ dateNow \in Clock
  /\ disk \in TwoProjects
  /\ diskDirs = {}
  /\ disk0 = disk
  /\ calls = [i \in Invocations |-> NoCall]
  /\ CanonIdle /\ HashIdle /\ SignIdle /\ PkgIdle /\ ClientIdle
  /\ RequestIdle /\ MigrationIdle

\* Time passes.
Tick ==
  /\ dateNow < MaxClock
  /\ dateNow' = dateNow + 1
  /\ UNCHANGED <<disk, diskDirs, disk0, calls, twoOthers>>

\* Lines 113-138: read and parse the manifest, derive the public key, build
\* the placeholder manifest and its canonical copy.
TwoLoad(i) ==
  /\ calls[i].pc = "load"
  /\ \E text \in {Utf8Decode(disk[TwoManifestPath])} :
       \E parsed \in {JsonParse(text)} :
         \E manifest \in {Placeholder(parsed.val, ToHex(Ed25519Public(SignerSeed)))} :
           calls' = [calls EXCEPT ![i] =
                       IF parsed.ok
                       THEN [@ EXCEPT !.pc = "mkTemp", !.originalManifestContent = text,
                                      !.manifest = manifest,
                                      !.canonicalManifestForHashing =
                                        sortObjectKeysRecursively(manifest)]
                       ELSE [@ EXCEPT !.pc = "end", !.result = "rejected",
                                      !.error = "SyntaxError"]]
  /\ UNCHANGED <<dateNow, disk, diskDirs, disk0, twoOthers>>

\* Lines 141-143: name the staging directory after Date.now() and make it.
TwoMakeTemp(i) ==
  /\ calls[i].pc = "mkTemp"
  /\ calls' = [calls EXCEPT ![i].pc = "stage", ![i].tempDir = TempDirAt(dateNow)]
  /\ diskDirs' = diskDirs \cup {TempDirAt(dateNow)}
  /\ UNCHANGED <<dateNow, disk, disk0, twoOthers>>

\* Lines 146-172: copy the bundle and write the canonical manifest into the
\* staging directory; cp fails when the directory is no longer there.
TwoStage(i) ==
  /\ calls[i].pc = "stage"
  /\ IF calls[i].tempDir \notin diskDirs
     THEN /\ calls' = [calls EXCEPT ![i].pc = "cleanup", ![i].error = "cp failed"]
          /\ UNCHANGED disk
     ELSE /\ disk' = WriteFile(WriteFiles(disk, CopiedBundle(disk, <<Nm.dist>>, calls[i].tempDir)),
                               calls[i].tempDir \o TwoManifestPath,
                               Utf8Encode(JsonStringify(calls[i].canonicalManifestForHashing)))
          /\ calls' = [calls EXCEPT ![i].pc = "hash"]
  /\ UNCHANGED <<dateNow, diskDirs, disk0, twoOthers>>

\* Line 175: hash the staging directory; readdir fails when it is no longer
\* there.
TwoHash(i) ==
  /\ calls[i].pc = "hash"
  /\ calls' = [calls EXCEPT ![i] =
       IF calls[i].tempDir \notin diskDirs
       THEN [@ EXCEPT !.pc = "cleanup", !.error = "ENOENT"]
       ELSE [@ EXCEPT !.pc = "cleanup",
                      !.contentHash =
                        hashDirectory(disk, ListingOf(disk, calls[i].tempDir, FALSE),
                                      calls[i].tempDir),
                      !.hashed = TreeAt(disk, calls[i].tempDir)]]
  /\ UNCHANGED <<dateNow, disk, diskDirs, disk0, twoOthers>>

\* Lines 176-179: remove the staging directory; an error of the try block
\* then rejects the call.
TwoCleanup(i) ==
  /\ calls[i].pc = "cleanup"
  /\ disk' = RemoveAll(disk, FilesUnder(disk, calls[i].tempDir))
  /\ diskDirs' = { d \in diskDirs : ~IsPrefix(calls[i].tempDir, d) }
  /\ calls' = [calls EXCEPT ![i] =
       IF @.error # "" THEN [@ EXCEPT !.pc = "end", !.result = "rejected"]
                       ELSE [@ EXCEPT !.pc = "writeFinal"]]
  /\ UNCHANGED <<dateNow, disk0, twoOthers>>

\* Lines 182-191: sign the hash, write the finalized manifest.
TwoWriteFinal(i) ==
  /\ calls[i].pc = "writeFinal"
  /\ \E manifest \in {FinalManifest(calls[i].manifest,
                                    ToHex(Ed25519Sign(SignerSeed, calls[i].contentHash)))} :
       /\ calls' = [calls EXCEPT ![i].pc = "archive", ![i].manifest = manifest]
       /\ disk' = WriteFile(disk, TwoManifestPath, Utf8Encode(JsonStringify(manifest)))
  /\ UNCHANGED <<dateNow, diskDirs, disk0, twoOthers>>

\* Lines 196-238: the archive is written and the output stream closes.
TwoArchive(i) ==
  /\ calls[i].pc = "archive"
  /\ calls' = [calls EXCEPT ![i].pc = "restore"]
  /\ disk' = WriteFile(disk, FinalOutputPath(<<>>, calls[i].manifest), ArchiveBytes)
  /\ UNCHANGED <<dateNow, diskDirs, disk0, twoOthers>>

RestoredFromMemory(fsys, call) ==
  WriteFile(fsys, TwoManifestPath, Utf8Encode(JsonStringify(call.manifest)))

\* Line 204: fs.writeFile(manifestPath, originalManifestContent)
RestoredBy(fsys, call) ==
  WriteFile(fsys, TwoManifestPath, Utf8Encode(call.originalManifestContent))

\* Lines 202-209: the close handler restores the manifest and resolves.
TwoRestore(i) ==
  /\ calls[i].pc = "restore"
  /\ disk' = RestoredBy(disk, calls[i])
  /\ calls' = [calls EXCEPT ![i].pc = "end", ![i].result = "resolved"]
  /\ UNCHANGED <<dateNow, diskDirs, disk0, twoOthers>>

TwoNext ==
  \/ Tick
  \/ \E i \in Invocations : TwoLoad(i)
  \/ \E i \in Invocations : TwoMakeTemp(i)
  \/ \E i \in Invocations : TwoStage(i)
  \/ \E i \in Invocations : TwoHash(i)
  \/ \E i \in Invocations : TwoCleanup(i)
  \/ \E i \in Invocations : TwoWriteFinal(i)
  \/ \E i \in Invocations : TwoArchive(i)
  \/ \E i \in Invocations : TwoRestore(i)

SpecTwo == TwoInit /\ [][TwoNext]_vars

\* C15: two calls in flight never have the same staging directory, so that
\* neither hashes nor deletes what the other staged.
C15_DistinctTempDirs ==
  \A i, j \in Invocations :
    (i # j /\ calls[i].tempDir # <<>> /\ calls[j].tempDir # <<>>)
      => calls[i].tempDir # calls[j].tempDir

BothResolved == \A i \in Invocations : calls[i].result = "resolved"

\* Call i read, as its original, the manifest that call j had finalized.
ReadFinalizedOf(i, j) ==
  /\ i # j
  /\ calls[j].pc \in {"archive", "restore", "end"}
  /\ calls[i].originalManifestContent = JsonStringify(calls[j].manifest)

\* C18: two calls on the same manifest path can both succeed and leave the
\* manifest file with other bytes than it had before either started; when
\* they do, one call read the manifest the other had finalized as its
\* original and restored that.
C18_InterleavingChangesManifest ==
  (BothResolved /\ disk[TwoManifestPath] # disk0[TwoManifestPath])
    => \E i, j \in Invocations :
         /\ ReadFinalizedOf(i, j)
         /\ disk[TwoManifestPath] = Utf8Encode(calls[i].originalManifestContent)

\* Both calls have succeeded and the manifest file holds a signature, which
\* it did not before.
C18_Witness ==
  /\ BothResolved
  /\ disk[TwoManifestPath] # disk0[TwoManifestPath]
  /\ \E i, j \in Invocations : ReadFinalizedOf(i, j)

(***************************************************************************)
(* HaexHubClient: the setup hook                                           *)
(***************************************************************************)

\* The functions passed to onSetup, the callers of setupComplete().
Hooks == {1, 2}
Callers == {1, 2}

\* How many calls of setupComplete() one caller makes, how many calls of
\* onSetup are made.
MaxCalls == 2
MaxRegistrations == 2

ClientInit ==
  /\ readyPromise = "pending"
  /\ setupHook = 0
  /\ setupPromise = "null"
  /\ setupCompleted = FALSE
  /\ kCallers = [c \in Callers |-> [pc |-> "idle", calls |-> 0]]
  /\ kHookRuns = 0 /\ kRegistered = <<>> /\ kThrown = 0
  /\ CanonIdle /\ HashIdle /\ SignIdle /\ PkgIdle /\ TwoIdle
  /\ RequestIdle /\ MigrationIdle

\* onSetup(setupFn): throws when a hook is registered, else stores setupFn.
OnSetup(setupFn) ==
  /\ Len(kRegistered) + kThrown < MaxRegistrations
  /\ IF setupHook # 0
     THEN kThrown' = kThrown + 1 /\ UNCHANGED <<setupHook, kRegistered>>
     ELSE /\ setupHook' = setupFn
          /\ kRegistered' = Append(kRegistered, setupFn)
          /\ UNCHANGED kThrown
  /\ UNCHANGED <<readyPromise, setupPromise, setupCompleted, kCallers, kHookRuns, clientOthers>>

\* init() calls resolveReady().
ResolveReady ==
  /\ readyPromise = "pending"
  /\ readyPromise' = "resolved"
  /\ UNCHANGED <<setupHook, setupPromise, setupCompleted, kCallers, kHookRuns,
                 kRegistered, kThrown, clientOthers>>

\* A caller calls setupComplete(): the call runs up to await this.readyPromise.
CallSetupComplete(c) ==
  /\ kCallers[c].pc \in {"idle", "returned", "threw"}
  /\ kCallers[c].calls < MaxCalls
  /\ kCallers' = [kCallers EXCEPT ![c] = [pc |-> "awaitReady", calls |-> @.calls + 1]]
  /\ UNCHANGED <<readyPromise, setupHook, setupPromise, setupCompleted, kHookRuns,
                 kRegistered, kThrown, clientOthers>>

NeedsSetupRunAlways(promise) == TRUE

\* !this.setupPromise
NeedsSetupRun(promise) == promise = "null"

\* setupComplete() after the await: return when there is no hook or setup
\* is complete; else start runSetupAsync(), which invokes the hook, unless a
\* setup promise exists, and return the setup promise.
AfterReady(c) ==
  /\ kCallers[c].pc = "awaitReady"
  /\ readyPromise = "resolved"
  /\ IF setupHook = 0 \/ setupCompleted
     THEN /\ kCallers' = [kCallers EXCEPT ![c].pc = "returned"]
          /\ UNCHANGED <<setupPromise, kHookRuns>>
     ELSE /\ kCallers' = [kCallers EXCEPT ![c].pc = "awaitSetup"]
          /\ IF NeedsSetupRun(setupPromise)
             THEN setupPromise' = "pending" /\ kHookRuns' = kHookRuns + 1
             ELSE UNCHANGED <<setupPromise, kHookRuns>>
  /\ UNCHANGED <<readyPromise, setupHook, setupCompleted, kRegistered, kThrown, clientOthers>>

\* runSetupAsync() after await this.setupHook(): the hook resolved and setup
\* is complete, or it rejected and the error is rethrown.
HookSettles ==
  /\ setupPromise = "pending"
  /\ \/ setupPromise' = "resolved" /\ setupCompleted' = TRUE
     \/ setupPromise' = "rejected" /\ UNCHANGED setupCompleted
  /\ UNCHANGED <<readyPromise, setupHook, kCallers, kHookRuns, kRegistered, kThrown,
                 clientOthers>>

\* The promise setupComplete() returned settles as the setup promise did.
CallerResumes(c) ==
  /\ kCallers[c].pc = "awaitSetup"
  /\ setupPromise \in {"resolved", "rejected"}
  /\ kCallers' = [kCallers EXCEPT ![c].pc =
                    IF setupPromise = "resolved" THEN "returned" ELSE "threw"]
  /\ UNCHANGED <<readyPromise, setupHook, setupPromise, setupCompleted, kHookRuns,
                 kRegistered, kThrown, clientOthers>>

ClientNext ==
  \/ \E setupFn \in Hooks : OnSetup(setupFn)
  \/ ResolveReady
  \/ \E c \in Callers : CallSetupComplete(c)
  \/ \E c \in Callers : AfterReady(c)
  \/ HookSettles
  \/ \E c \in Callers : CallerResumes(c)

SpecClient == ClientInit /\ [][ClientNext]_vars

\* C16: the setup hook is invoked at most once per client, whatever the
\* number and the interleaving of the setupComplete() calls, and an onSetup
\* call made while a hook is registered throws and leaves that hook in place.
C16_SetupHookRunsOnce ==
  /\ kHookRuns <= 1
  /\ Len(kRegistered) <= 1
  /\ kRegistered # <<>> => setupHook = kRegistered[1]
  /\ kThrown > 0 => kRegistered # <<>>

\* Every caller has made all its calls, some of them while the hook was
\* running; the hook ran, and a second registration was refused.
C16_Witness ==
  /\ kHookRuns = 1
  /\ kThrown = 1
  /\ \A c \in Callers : kCallers[c].calls = MaxCalls /\ kCallers[c].pc \in {"returned", "threw"}

\* The steps of packageExtension in the order of its statements, and how far
\* a run has got: the number of the step it is about to take, 0 once a step
\* has failed.
StepOrder ==
  <<"load", "importKey", "derive", "mkTemp", "copyBundle", "copyPublicKey",
    "writePlaceholder", "copyConfig", "hash", "cleanup", "sign", "writeFinal",
    "archive">>

Progress ==
  IF \/ run.pc = "end" \/ run.error # "" \/ pResult.state = "rejected"
     \/ out.stream = "errored" \/ out.archive = "error" \/ out.closeWrite = "failed"
  THEN 0
  ELSE IF run.pc # "promise"
  THEN CHOOSE k \in DOMAIN StepOrder : StepOrder[k] = run.pc
  ELSE Len(StepOrder)
       + (CASE out.archive = "queued" -> 1
            [] out.archive = "done" /\ out.closeWrite = "none" -> 2
            [] out.archive = "done" /\ out.closeWrite = "pending" -> 3
            [] out.archive = "done" /\ out.closeWrite = "done" -> 4)

\* C17: a run takes the steps one after the other in the order of
\* StepOrder, then hands off to the archiver, then restores the manifest:
\* no step is skipped, repeated or taken out of order, a successful run has
\* taken them all, and when the hash is signed it covers the bytes of every
\* file of the staged tree.
C17_StepsInOrder ==
  /\ [][Progress' = 0 \/ (Progress # 0 /\ Progress' \in {Progress, Progress + 1})]_vars
  /\ [](PackagedOk => Progress = Len(StepOrder) + 4)
  /\ [](run.pc = "writeFinal"
          => /\ run.contentHash # <<>>
             /\ \A r \in DOMAIN pHashed : Includes(run.contentHash, pHashed[r]))

\* A run on a project with a configuration file has succeeded, having taken
\* every step.
C17_Witness ==
  /\ PackagedOk
  /\ Progress = Len(StepOrder) + 4
  /\ ConfigPath \in DOMAIN pFs0
  /\ DOMAIN pHashed # {}

\* C19: while a run is under way the manifest file holds its original bytes
\* or the finalized manifest with the signature of the run, never the
\* placeholder built for hashing nor anything else.
C19_ManifestOriginalOrFinal ==
  (run.extensionDir # <<>> /\ RunManifestPath \in DOMAIN pFs0)
    => \/ fs[RunManifestPath] = pFs0[RunManifestPath]
       \/ /\ run.signatureHex # <<>>
          /\ fs[RunManifestPath]
               = Utf8Encode(JsonStringify(FinalManifest(run.manifest, run.signatureHex)))

\* Every object of a value, at every depth and inside arrays, lists its keys
\* in ascending code-unit order.
RECURSIVE KeysSortedEverywhere(_)
KeysSortedEverywhere(val) ==
  CASE val.t = "o" ->
         /\ \A i \in 1..(Len(val.v) - 1) : LexLess(val.v[i][1], val.v[i + 1][1])
         /\ \A i \in DOMAIN val.v : KeysSortedEverywhere(val.v[i][2])
    [] val.t = "a" -> \A i \in DOMAIN val.v : KeysSortedEverywhere(val.v[i])
    [] OTHER -> TRUE

\* C20: in the value sortObjectKeysRecursively returns, every object at
\* every nesting level, also inside arrays, enumerates its keys in
\* lexicographic order, whatever the keys, keys that look like non-negative
\* integers included.
C20_KeysLexicographicEverywhere ==
  cPc \in {"once", "twice"} => KeysSortedEverywhere(cOnce)

\* The documents that hold the keys and values of doc at every nesting
\* level, built in every order of setting the keys.
RECURSIVE Rebuilds(_)
RECURSIVE RebuildsOfEach(_)
\* One rebuild for each of the values listed.
RebuildsOfEach(vals) ==
  IF vals = <<>> THEN {<<>>}
  ELSE { <<h>> \o t : h \in Rebuilds(Head(vals)), t \in RebuildsOfEach(Tail(vals)) }

Rebuilds(doc) ==
  CASE doc.t = "a" -> { JArr(els) : els \in RebuildsOfEach(doc.v) }
    [] doc.t = "o" ->
         { BuildObject([i \in DOMAIN doc.v |-> doc.v[p[i]][1]], [i \in DOMAIN doc.v |-> ch[p[i]]])
           : p \in Perms(DOMAIN doc.v),
             ch \in RebuildsOfEach([i \in DOMAIN doc.v |-> doc.v[i][2]]) }
    [] OTHER -> {doc}

\* What the result holds is what the input held at the same place: scalars
\* are equal, arrays have the same length and their elements correspond in
\* order, the value under a key of the result is that of the input's key.
RECURSIVE Preserved(_, _)
Preserved(input, result) ==
  CASE input.t = "a" ->
         /\ result.t = "a" /\ Len(result.v) = Len(input.v)
         /\ \A i \in DOMAIN input.v : Preserved(input.v[i], result.v[i])
    [] input.t = "o" ->
         /\ result.t = "o"
         /\ \A i \in DOMAIN result.v :
              /\ HasOwn(input, result.v[i][1])
              /\ Preserved(GetProp(input, result.v[i][1]), result.v[i][2])
    [] OTHER -> result = input

RepackInit ==
  /\ dateNow \in Clock
  /\ disk \in TwoProjects
  /\ diskDirs = {}
  /\ disk0 = disk
  /\ calls = [i \in Invocations |-> IF i = 1 THEN NoCall ELSE [NoCall EXCEPT !.pc = "idle"]]
  /\ CanonIdle /\ HashIdle /\ SignIdle /\ PkgIdle /\ ClientIdle
  /\ RequestIdle /\ MigrationIdle

\* Values a manifest's public_key and signature fields are given between
\* the runs: empty, those of another key and release, those the first run
\* computed.
EditedPublicKeys ==
  { <<>>, ToHex(Ed25519Public(SignerSeed)), ToHex(Ed25519Public(OtherSeed)) }
EditedSignatures ==
  { <<>>, <<97, 98>>, OptionalProp(calls[1].manifest, Key.signature).v }

\* After the first call has ended the developer changes the values of
\* public_key and signature in the manifest file, nothing else, and calls
\* packageExtension again.
EditManifest ==
  /\ calls[1].pc = "end"
  /\ calls[1].result = "resolved"
  /\ calls[2].pc = "idle"
  /\ \E publicKey \in EditedPublicKeys, signature \in EditedSignatures :
       \E parsed \in {JsonParse(Utf8Decode(disk[TwoManifestPath]))} :
         disk' = WriteFile(disk, TwoManifestPath,
                   Utf8Encode(JsonStringify(
                     DefineProp(DefineProp(parsed.val, Key.public_key, JStr(publicKey)),
                                Key.signature, JStr(signature)))))
  /\ calls' = [calls EXCEPT ![2].pc = "load"]
  /\ UNCHANGED <<dateNow, diskDirs, disk0, twoOthers>>

RepackNext ==
  \/ Tick
  \/ EditManifest
  \/ \E i \in Invocations : TwoLoad(i)
  \/ \E i \in Invocations : TwoMakeTemp(i)
  \/ \E i \in Invocations : TwoStage(i)
  \/ \E i \in Invocations : TwoHash(i)
  \/ \E i \in Invocations : TwoCleanup(i)
  \/ \E i \in Invocations : TwoWriteFinal(i)
  \/ \E i \in Invocations : TwoArchive(i)
  \/ \E i \in Invocations : TwoRestore(i)

SpecRepack == RepackInit /\ [][RepackNext]_vars

\* C22: a second run with the same key and the same bundle, on a manifest
\* that differs from the first run's only in the values of public_key and
\* signature, computes the content hash and the signature of the first run.
C22_OutputsDoNotFeedBack ==
  /\ calls[2].contentHash # <<>> => calls[2].contentHash = calls[1].contentHash
  /\ calls[2].pc \in {"archive", "restore", "end"}
       => OptionalProp(calls[2].manifest, Key.signature)
            = OptionalProp(calls[1].manifest, Key.signature)

\* The second run has succeeded on the manifest the first run finalized,
\* which held the first run's signature.
C22_Witness ==
  /\ calls[2].result = "resolved"
  /\ calls[2].originalManifestContent = JsonStringify(calls[1].manifest)
  /\ OptionalProp(calls[1].manifest, Key.signature).v # <<>>

\* Document `written` has the fields and values of `read`, except that its
\* public_key and its signature are the given ones.
SameButOutputs(read, written, publicKeyHex, signatureHex) ==
  /\ written.t = "o"
  /\ OptionalProp(written, Key.public_key) = JStr(publicKeyHex)
  /\ OptionalProp(written, Key.signature) = JStr(signatureHex)
  /\ \A k \in (Range(OwnKeys(written)) \cup Range(OwnKeys(read)))
                \ {Key.public_key, Key.signature} :
       HasOwn(written, k) /\ HasOwn(read, k) /\ GetProp(written, k) = GetProp(read, k)

\* C23: the finalized manifest written to the manifest path has exactly the
\* fields and values of the manifest read at the start of the run, except
\* that public_key is the derived public key and signature the signature
\* computed in the run.
C23_FinalManifestFrame ==
  run.pc = "archive" =>
    \E read \in {JsonParse(Utf8Decode(pFs0[RunManifestPath]))} :
      \E written \in {JsonParse(Utf8Decode(fs[RunManifestPath]))} :
        /\ written.ok
        /\ run.signatureHex # <<>>
        /\ SameButOutputs(read.val, written.val,
                          ToHex(derivePublicKey(FromHex(pArgs.privateKeyHex))),
                          run.signatureHex)

\* The finalized manifest of a manifest with a field named __proto__ and
\* without public_key and signature has been written.
C23_Witness ==
  /\ run.pc = "archive"
  /\ HasOwn(run.manifest, ProtoKey)
  /\ Includes(fs[RunManifestPath], Utf8Encode(ProtoKey))
  /\ ~Includes(pFs0[RunManifestPath], Utf8Encode(Key.signature))

\* The key string is not the hex form of the PKCS#8 export of any key.
KeyMalformed == pArgs.privateKeyHex \notin { ToHex(ExportPkcs8(seed)) : seed \in Seeds }

\* Nothing has been created or written and nothing hashed.
DiskUntouched ==
  fs = pFs0 /\ fsDirs = {} /\ pHashed = NoFiles /\ out = NoOut /\ run.contentHash = <<>>

\* C24, as stated: with a malformed private key the run fails with the
\* key-import error, nothing having been hashed, created or written.
C24_MalformedKeyFailsWithKeyError ==
  (KeyMalformed /\ RunEnded) => (pResult = Rejected("DataError") /\ DiskUntouched)

\* C24, amended: with a malformed private key nothing is ever hashed,
\* created or written; the run fails, with the key-import error when the
\* manifest was read and parsed, with the error of reading or parsing the
\* manifest otherwise; and signExtension with that key fails, returning
\* nothing.
C24_MalformedKeyLeavesDiskUntouched ==
  KeyMalformed =>
    /\ DiskUntouched
    /\ run.pc \in {"load", "importKey", "end"}
    /\ RunEnded =>
         /\ pResult.state = "rejected"
         /\ IF run.extensionDir # <<>> THEN pResult.error = "DataError"
            ELSE pResult.error \in {"ENOENT", "SyntaxError"}
    /\ run.pc = "importKey" =>
         ~signExtension(fs, ListingOf(fs, pArgs.extensionPath, FALSE), pArgs.extensionPath,
                        pArgs.privateKeyHex).ok

\* A run given a private key cut short has read its manifest and failed at
\* the import of the key.
C24_Witness ==
  /\ KeyMalformed
  /\ RunEnded
  /\ run.extensionDir # <<>>
  /\ pResult = Rejected("DataError")

\* The number of bytes in the files of tree t at the paths ps.
RECURSIVE TotalLen(_, _)
TotalLen(t, ps) ==
  IF ps = {} THEN 0
  ELSE LET p == CHOOSE q \in ps : TRUE IN Len(t[p]) + TotalLen(t, ps \ {p})

\* The manifest file is there and holds what it held at the start.
ManifestUnwritten ==
  RunManifestPath \in DOMAIN fs /\ fs[RunManifestPath] = pFs0[RunManifestPath]

\* C25: when the read of an enumerated file fails, hashDirectory returns no
\* digest, the run produces no signature, does not write the manifest and
\* rejects with the error of the read; a digest that hashDirectory does return
\* covers the bytes of every file of the staged tree, never a subset.
C25_ReadFailureAbortsHash ==
  /\ run.error = "ENOENT"
       => /\ run.contentHash = <<>> /\ run.signatureHex = <<>>
          /\ ManifestUnwritten
          /\ out = NoOut
          /\ run.pc \in {"cleanup", "end"}
          /\ run.pc = "end" => pResult = Rejected("ENOENT")
  /\ (run.pc = "cleanup" /\ run.contentHash # <<>>)
       => /\ pHashed = TreeAt(fs, run.tempDir)
          /\ \A r \in DOMAIN pHashed : Includes(run.contentHash, pHashed[r])
          /\ Len(run.contentHash) = Len(Sha256(<<>>)) + TotalLen(pHashed, DOMAIN pHashed)

\* The read of a file of a staged tree of several files has failed and the
\* run has ended, rejected.
C25_Witness ==
  /\ run.error = "ENOENT"
  /\ run.pc = "end"
  /\ pResult = Rejected("ENOENT")
  /\ ConfigPath \in DOMAIN fs
(***************************************************************************)
(* hashDirectory over a tree that holds symbolic links                     *)
(***************************************************************************)

\* The links a tree may hold, each with its target: "t/l" -> "t/a" (a
\* directory), "t/a/u" -> "t" (an ancestor: a cycle), "t/s" -> "t/s" (itself)
\* and "t/f" -> "t/a/c" (a regular file).
LinkTargets ==
  LET l == HashRoot \o << <<108>> >>
      u == HashRoot \o << <<97>>, <<117>> >>
      s == HashRoot \o << <<115>> >>
      f == HashRoot \o << <<102>> >>
      a == HashRoot \o << <<97>> >>
      c == HashRoot \o << <<97>>, <<99>> >>
  IN [p \in {l, u, s, f} |->
        CASE p = l -> a [] p = u -> HashRoot [] p = s -> s [] p = f -> c]

\* Trees of regular files that hold "t/a/c", with or without "t/b".
LinkedTrees ==
  { t \in HashTrees : HashRoot \o << <<97>>, <<99>> >> \in DOMAIN t
                      /\ HashRoot \o << <<97, 46, 98>> >> \notin DOMAIN t }

\* Links the kernel follows before it gives up with ELOOP.
MaxLinkHops == 2

LinksOf == hTrees[2]

\* The names readdir(dir) reports: regular files, directories and links.
LinkEntries(files, links, dir) ==
  Entries(files, dir) \cup { p[Len(p)] : p \in { q \in DOMAIN links : SubSeq(q, 1, Len(q) - 1) = dir } }

\* fs.readFile(path) where path may be a link: links are followed; a directory
\* at the end is EISDIR, a chain that does not end is ELOOP.
RECURSIVE ReadFollowing(_, _, _, _)
ReadFollowing(files, links, p, hops) ==
  IF p \in DOMAIN files THEN [ok |-> TRUE, content |-> files[p], code |-> ""]
  ELSE IF p = HashRoot \/ IsDirectory(files, p)
    THEN [ok |-> FALSE, content |-> <<>>, code |-> "EISDIR"]
  ELSE IF p \notin DOMAIN links
    THEN [ok |-> FALSE, content |-> <<>>, code |-> "ENOENT"]
  ELSE IF hops = 0
    THEN [ok |-> FALSE, content |-> <<>>, code |-> "ELOOP"]
  ELSE ReadFollowing(files, links, links[p], hops - 1)

PathAt(files, links, str) ==
  CHOOSE p \in DOMAIN files \cup DOMAIN links : PathStr(p) = str

LinkInit ==
  /\ hPc = "idle"
  /\ hEdit = "none"
  /\ \E t \in LinkedTrees : \E L \in SUBSET DOMAIN LinkTargets :
       hTrees = <<t, [p \in L |-> LinkTargets[p]]>>
  /\ hRun = 1
  /\ hPending = {} /\ hListing = NoFiles /\ hFiles = <<>> /\ hSorted = <<>>
  /\ hContents = <<>> /\ hDigest = <<<<>>, <<>>>>
  /\ CanonIdle /\ SignIdle /\ PkgIdle /\ TwoIdle /\ ClientIdle
  /\ RequestIdle /\ MigrationIdle

\* One readdir returns; a link's Dirent answers isDirectory() with false, so
\* getAllFiles is called only for the entries that are directories themselves.
ReaddirWithLinks ==
  /\ hPc = "listing"
  /\ \E d \in hPending : \E order \in Perms(LinkEntries(HashTree, LinksOf, d)) :
       /\ hListing' = [x \in DOMAIN hListing \cup {d} |-> IF x = d THEN order ELSE hListing[x]]
       /\ hPending' = (hPending \ {d})
                        \cup { Append(d, n) : n \in { m \in Entries(HashTree, d) :
                                                       IsDirectory(HashTree, Append(d, m)) } }
  /\ UNCHANGED <<hPc, hTrees, hEdit, hRun, hFiles, hSorted, hContents, hDigest, hashOthers>>

\* One pass of the loop: await fs.readFile(file); a rejection leaves
\* hashDirectory rejected with it.
ReadFileOrLink ==
  /\ hPc = "read" /\ Len(hContents) < Len(hSorted)
  /\ \E read \in { ReadFollowing(HashTree, LinksOf,
                                 PathAt(HashTree, LinksOf, hSorted[Len(hContents) + 1]),
                                 MaxLinkHops) } :
       IF read.ok
       THEN hContents' = Append(hContents, read.content) /\ hPc' = hPc
       ELSE hContents' = hContents /\ hPc' = "failed"
  /\ UNCHANGED <<hTrees, hEdit, hRun, hPending, hListing, hFiles, hSorted, hDigest,
                 hashOthers>>

LinkNext ==
  HashStart \/ ReaddirWithLinks \/ FilesResolved \/ ReadFileOrLink \/ DigestReturned

SpecLinks == LinkInit /\ [][LinkNext]_vars

\* C26: hashDirectory on a tree with symbolic links never rejects, and the
\* digest it returns is that of the regular files alone: links are skipped,
\* neither read nor followed.
C26_LinksSkipped ==
  /\ hPc # "failed"
  /\ hPc = "hashed" => hDigest[1] = Sha256(BytesInPathOrder(hTrees[1]))

(***************************************************************************)
(* packageExtension: settling of the returned promise                      *)
(***************************************************************************)

\* The output stream has closed or failed and no restoring write is still
\* under way: no handler of the archive phase is left to run.
ArchivePhaseOver ==
  /\ run.pc = "promise"
  /\ out.stream \in {"closed", "errored"}
  /\ out.closeWrite # "pending" /\ out.errorWrite # "pending"

\* C27: when the handlers of the archive phase have all run, the promise
\* packageExtension returned is resolved or rejected, whichever of the writes
\* and events failed.
C27_ArchivePhaseSettles == ArchivePhaseOver => pResult.state # "pending"

ArchivedPublicKeys == { e \in pArchive : e.name = <<Nm.haextension, Nm.publicKey>> }

\* C28: in the archive of a successful run the content of the public.key
\* entry is the public_key value of the archived manifest.
C28_PublicKeyEntryMatchesManifest ==
  PackagedOk =>
    \A k \in ArchivedPublicKeys : \A e \in ArchivedManifests :
      \E archived \in {JsonParse(Utf8Decode(e.data))} :
        archived.ok /\ OptionalProp(archived.val, Key.public_key) = JStr(Utf8Decode(k.data))

(***************************************************************************)
(* HaexHubClient.request over postMessage                                  *)
(***************************************************************************)

\* Most requests the client makes.
MaxRequests == 3

RequestIds == 1..MaxRequests

NoPromise == [state |-> "none", with |-> "", settled |-> 0]

\* resolve or reject is called on the promise of request id; only the first
\* call has an effect, settled counts the calls.
SettleRequest(id, state, with) ==
  rPromises' = [rPromises EXCEPT ![id] =
                  [state |-> IF @.state = "pending" THEN state ELSE @.state,
                   with |-> IF @.state = "pending" THEN with ELSE @.with,
                   settled |-> @.settled + 1]]

\* After init(): the message handler of lines 587-588 is registered.
RequestInit ==
  /\ requestCounter = 0 /\ pendingRequests = {} /\ messageHandler = TRUE
  /\ rTimers = {} /\ rAwaited = {} /\ rInbox = {}
  /\ rPromises = [id \in RequestIds |-> NoPromise]
  /\ CanonIdle /\ HashIdle /\ SignIdle /\ PkgIdle /\ TwoIdle /\ ClientIdle /\ MigrationIdle

\* postMessage(method, params): a new id, the timeout armed, the entry set and
\* the request posted to the parent window.
PostMessage ==
  /\ requestCounter < MaxRequests
  /\ \E requestId \in {requestCounter + 1} :
       /\ requestCounter' = requestId
       /\ rTimers' = rTimers \cup {requestId}
       /\ pendingRequests' = pendingRequests \cup {requestId}
       /\ rPromises' = [rPromises EXCEPT ![requestId] = [NoPromise EXCEPT !.state = "pending"]]
       /\ rAwaited' = rAwaited \cup {requestId}
  /\ UNCHANGED <<messageHandler, rInbox, requestOthers>>

\* The parent window answers a request with a result or with an error.
ParentResponds ==
  /\ \E id \in rAwaited : \E isError \in BOOLEAN :
       /\ rAwaited' = rAwaited \ {id}
       /\ rInbox' = rInbox \cup {[id |-> id, error |-> isError]}
  /\ UNCHANGED <<requestCounter, pendingRequests, messageHandler, rTimers, rPromises,
                 requestOthers>>

\* handleMessage(event) for a response from the parent window, lines 655-677.
HandleMessage ==
  /\ messageHandler
  /\ \E data \in rInbox :
       /\ rInbox' = rInbox \ {data}
       /\ IF data.id \in pendingRequests
          THEN /\ rTimers' = rTimers \ {data.id}
               /\ pendingRequests' = pendingRequests \ {data.id}
               /\ IF data.error
                  THEN SettleRequest(data.id, "rejected", "error")
                  ELSE SettleRequest(data.id, "resolved", "result")
          ELSE UNCHANGED <<rTimers, pendingRequests, rPromises>>
  /\ UNCHANGED <<requestCounter, messageHandler, rAwaited, requestOthers>>

\* A response reaches the window after the handler was removed: no listener
\* sees it.
MessageUnheard ==
  /\ ~messageHandler
  /\ \E data \in rInbox : rInbox' = rInbox \ {data}
  /\ UNCHANGED <<requestCounter, pendingRequests, messageHandler, rTimers, rPromises, rAwaited,
                 requestOthers>>

\* The callback of setTimeout, lines 420-427.
TimeoutFires(requestId) ==
  /\ requestId \in rTimers
  /\ rTimers' = rTimers \ {requestId}
  /\ pendingRequests' = pendingRequests \ {requestId}
  /\ SettleRequest(requestId, "rejected", "TIMEOUT")
  /\ UNCHANGED <<requestCounter, messageHandler, rAwaited, rInbox, requestOthers>>

\* destroy(), lines 525-536: the listener is removed, every entry's timeout is
\* cleared and the entries are dropped; no entry's resolve or reject is called.
Destroy ==
  /\ messageHandler' = FALSE
  /\ rTimers' = rTimers \ pendingRequests
  /\ pendingRequests' = {}
  /\ UNCHANGED <<requestCounter, rPromises, rAwaited, rInbox, requestOthers>>

RequestNext ==
  \/ PostMessage
  \/ ParentResponds
  \/ HandleMessage
  \/ MessageUnheard
  \/ \E requestId \in RequestIds : TimeoutFires(requestId)
  \/ Destroy

SpecRequest == RequestInit /\ [][RequestNext]_vars

\* An armed timeout fires unless it is cleared, and a message posted to the
\* window is dispatched to the registered handler.
SpecRequestFair ==
  /\ SpecRequest
  /\ \A requestId \in RequestIds : WF_vars(TimeoutFires(requestId))
  /\ WF_vars(HandleMessage)

\* C29: every promise request returned is eventually settled, by exactly one
\* call of resolve or reject (the response's result, its error, or TIMEOUT),
\* and its entry in pendingRequests is then gone; destroy() makes no exception.
C29_RequestsSettleOnce ==
  /\ \A id \in RequestIds :
       (rPromises[id].state = "pending") ~> (rPromises[id].state # "pending")
  /\ [](\A id \in RequestIds :
          rPromises[id].state \in {"resolved", "rejected"} =>
            /\ rPromises[id].settled = 1
            /\ id \notin pendingRequests
            /\ rPromises[id].with \in {"result", "error", "TIMEOUT"})

(***************************************************************************)
(* DatabaseAPI.runMigrationsAsync                                          *)
(***************************************************************************)

\* Longest list of migrations passed to a call.
MaxMigrations == 2

MigrationCalls == {1, 2}

\* A migration's sql is the sequence of its pieces between the
\* "--> statement-breakpoint" separators, a blank piece being "".
Migrations ==
  { [name |-> "m1", sql |-> <<"create a", "", "create b">>],
    [name |-> "m2", sql |-> <<"create c">>] }

MigrationLists == UNION { [1..n -> Migrations] : n \in 1..MaxMigrations }

\* migration.sql.split("--> statement-breakpoint").map((s) => s.trim())
\*   .filter((s) => s.length > 0)
Statements(sql) == SelectSeq(sql, LAMBDA piece : piece # "")

\* What this.execute(statement) can do: succeed, reject with an Error whose
\* message includes "already exists", reject with another Error, or reject
\* with a value that is not an Error (the error object of a response).
Outcomes == {"ok", "already exists", "error", "not an Error"}

\* The catch of lines 217-229 rethrows only an Error without "already exists".
Rethrown(outcome) == outcome = "error"

NoMigrationCall ==
  [pc |-> "idle", migrations |-> <<>>, appliedNames |-> {}, i |-> 0, j |-> 0]

MigrationInit ==
  /\ mTable \in {<<>>, <<"m1">>}
  /\ mLog = <<>>
  /\ mCalls = [c \in MigrationCalls |-> NoMigrationCall]
  /\ CanonIdle /\ HashIdle /\ SignIdle /\ PkgIdle /\ TwoIdle /\ ClientIdle /\ RequestIdle

\* runMigrationsAsync(extensionPublicKey, extensionName, migrations) is called
\* and awaits CREATE TABLE IF NOT EXISTS.
CallRunMigrations(c) ==
  /\ mCalls[c].pc = "idle"
  /\ \E migrations \in MigrationLists :
       mCalls' = [mCalls EXCEPT ![c] = [NoMigrationCall EXCEPT !.pc = "create",
                                                               !.migrations = migrations]]
  /\ UNCHANGED <<mTable, mLog, migrationOthers>>

\* The table exists now; the call awaits SELECT name FROM the table.
CreateTable(c) ==
  /\ mCalls[c].pc = "create"
  /\ mCalls' = [mCalls EXCEPT ![c].pc = "select"]
  /\ UNCHANGED <<mTable, mLog, migrationOthers>>

\* Where the for loop over migrations stops next, from index i on: at the
\* first statement of the first migration whose name is not in appliedNames,
\* at its INSERT when it has no statement, or behind the list.
RECURSIVE LoopFrom(_, _)
LoopFrom(call, i) ==
  IF i > Len(call.migrations) THEN [call EXCEPT !.pc = "done", !.i = i, !.j = 0]
  ELSE IF call.migrations[i].name \in call.appliedNames THEN LoopFrom(call, i + 1)
  ELSE IF Statements(call.migrations[i].sql) = <<>>
    THEN [call EXCEPT !.pc = "insert", !.i = i, !.j = 0]
  ELSE [call EXCEPT !.pc = "execute", !.i = i, !.j = 1]

\* The SELECT returns: appliedNames is the set of names in the table now.
SelectApplied(c) ==
  /\ mCalls[c].pc = "select"
  /\ mCalls' = [mCalls EXCEPT ![c] = LoopFrom([@ EXCEPT !.appliedNames = Range(mTable)], 1)]
  /\ UNCHANGED <<mTable, mLog, migrationOthers>>

\* await this.execute(statement) settles for statement j of migration i.
ExecuteStatement(c) ==
  /\ mCalls[c].pc = "execute"
  /\ \E outcome \in Outcomes : \E call \in {mCalls[c]} :
       /\ mLog' = Append(mLog, [kind |-> "execute", call |-> c, i |-> call.i, j |-> call.j,
                                name |-> call.migrations[call.i].name,
                                recorded |-> call.migrations[call.i].name \in Range(mTable)])
       /\ mCalls' = [mCalls EXCEPT ![c] =
                       IF Rethrown(outcome) THEN [call EXCEPT !.pc = "failed"]
                       ELSE IF call.j < Len(Statements(call.migrations[call.i].sql))
                         THEN [call EXCEPT !.j = call.j + 1]
                       ELSE [call EXCEPT !.pc = "insert"]]
  /\ UNCHANGED <<mTable, migrationOthers>>

\* await this.execute(INSERT INTO the table (name, applied_at)): name is
\* UNIQUE, so the insert of a name the table holds rejects and the call
\* rethrows.
InsertName(c) ==
  /\ mCalls[c].pc = "insert"
  /\ \E call \in {mCalls[c]} : \E name \in {call.migrations[call.i].name} :
       IF name \in Range(mTable)
       THEN /\ mCalls' = [mCalls EXCEPT ![c].pc = "failed"]
            /\ UNCHANGED <<mTable, mLog>>
       ELSE /\ mTable' = Append(mTable, name)
            /\ mLog' = Append(mLog, [kind |-> "record", call |-> c, i |-> call.i, j |-> 0,
                                     name |-> name, recorded |-> FALSE])
            /\ mCalls' = [mCalls EXCEPT ![c] = LoopFrom(call, call.i + 1)]
  /\ UNCHANGED migrationOthers

MigrationNext ==
  \E c \in MigrationCalls :
    \/ CallRunMigrations(c)
    \/ CreateTable(c)
    \/ SelectApplied(c)
    \/ ExecuteStatement(c)
    \/ InsertName(c)

SpecMigration == MigrationInit /\ [][MigrationNext]_vars

\* C30: no statement is executed for a migration whose name the table holds
\* at that moment; a name is recorded only after every statement of its
\* migration was executed by the recording call; each call executes and
\* records in list order; and after a call that resolved every name of its
\* list is in the table exactly once.
C30_MigrationsAppliedOnce ==
  /\ \A k \in DOMAIN mLog : mLog[k].kind = "execute" => ~mLog[k].recorded
  /\ \A k \in DOMAIN mLog :
       mLog[k].kind = "record" =>
         \A j \in 1..Len(Statements(mCalls[mLog[k].call].migrations[mLog[k].i].sql)) :
           \E h \in 1..(k - 1) :
             /\ mLog[h].kind = "execute" /\ mLog[h].call = mLog[k].call
             /\ mLog[h].i = mLog[k].i /\ mLog[h].j = j
  /\ \A h, k \in DOMAIN mLog :
       (h < k /\ mLog[h].call = mLog[k].call) =>
         \/ mLog[h].i < mLog[k].i
         \/ mLog[h].i = mLog[k].i /\ mLog[h].kind = "execute"
            /\ (mLog[k].kind = "execute" => mLog[h].j < mLog[k].j)
  /\ \A c \in MigrationCalls :
       mCalls[c].pc = "done" =>
         \A i \in DOMAIN mCalls[c].migrations :
           Cardinality({ k \in DOMAIN mTable : mTable[k] = mCalls[c].migrations[i].name }) = 1

====
